---- MODULE Spec2Model ----
(***************************************************************************)
(* Subtitle timing and karaoke markup engine of                            *)
(* transcribe_pro_karaoke_docker.py.                                       *)
(*                                                                         *)
(* A Python str is a sequence of one-character strings, so that split,     *)
(* strip, join and len are computed on characters.  Times are integers in  *)
(* milliseconds; a timestamp "HH:MM:SS,mmm" is the sequence of its         *)
(* characters.  Each function of the engine is an operator, and each       *)
(* specification draws the arguments of one call from bounded sets and     *)
(* applies the function in one action.                                     *)
(***************************************************************************)
EXTENDS Integers, Sequences, FiniteSets, TLC

VARIABLES
    phase,          \* position of the modelled call: "input", then the function's name
    text,           \* wrap_text / wrap_ass_line: argument text
    max_chars,      \* wrap_text / wrap_ass_line: argument max_chars
    max_lines,      \* wrap_text / wrap_ass_line: argument max_lines
    wrapped,        \* wrap_text / wrap_ass_line: returned string
    segments,       \* polish_segments / build_karaoke_from_srt_approx: argument segments
    cfg,            \* polish_segments: the other arguments, by name
    polished,       \* polish_segments: returned list
    min_word_ms,    \* build_karaoke_from_srt_approx: argument min_word_ms
    wx_json,        \* load_whisperx_json_words: the "segments" of the JSON file
    speaker_prefix, \* whisperx_segments_to_srt_segments: argument speaker_prefix
    ksegs,          \* returned List[KaraokeSegment]
    srt_wx,         \* whisperx_segments_to_srt_segments: returned list
    seg_words,      \* build_karaoke_text(_capcut): argument words
    segment_start,  \* build_karaoke_text(_capcut): argument segment_start
    min_cs,         \* build_karaoke_text(_capcut): argument min_cs
    style_config,   \* build_karaoke_text_capcut: argument style_config
    markup,         \* build_karaoke_text(_capcut): returned string
    style_data,     \* CapcutStyleConfig.from_dict: argument data
    srt_file,       \* transcribe_one_whispercpp: the SRT file whisper.cpp wrote
    glossary_map,   \* transcribe_one_whispercpp: the glossary
    polish,         \* transcribe_one_whispercpp: the --polish flag
    all_segments,   \* transcribe_one_whispercpp: the segments it writes
    out_srt,        \* transcribe_one_whispercpp: the SRT file it writes
    reparsed,       \* parse_srt of out_srt
    rewritten,      \* write_srt of reparsed
    args,           \* main: the command-line options that choose the style
    res,            \* main: the canvas (width, height)
    all_presets,    \* main: the catalog get_all_presets returned, by name
    style_ref,      \* main: style_config, a reference into all_presets
    palavras,       \* test_quebra_inteligente: the texts of the timed words
    subsegmentos,   \* test_quebra_inteligente: the subsegments the splitter returned
    calc_args,      \* calc_max_chars: the arguments w, h, font_size and is_caps
    calc_result,    \* calc_max_chars: the returned final, calculated and usable_width
    files,          \* process_batch: argument files
    media,          \* the media files: whether transcription succeeds, whether the file is gone by then
    force,          \* main: args.force
    state,          \* main: the items of the state file, by file
    next_file,      \* process_batch: position of the for loop in files
    ok,             \* process_batch: counter ok
    fail,           \* process_batch: counter fail
    merged_tuples,  \* polish_segments: the list merged after the merge pass
    prompt,         \* whisper_cli_attempts: the prompt argument of the running call
    attempts,       \* whisper_cli_attempts: the commands of the running call
    attempt_no,     \* whisper_cli_attempts: the position of the for loop in attempts
    last,           \* whisper_cli_attempts: the output of the last command
    invocations,    \* the commands run so far, with their return codes and outputs
    cli_result,     \* what whisper_cli_attempts returned or raised
    options,        \* main: args.force and opt_fp of the running program
    disk,           \* the media file's size and mtime, and whether all required outputs exist
    entry,          \* state["items"][key] of the media file in the state file
    folder,         \* the media files of the input folder, each with its mtime
    seen,           \* main: the dict seen of the watch loop
    cached,         \* what should_skip answers for each file
    new,            \* main: the list new of the last poll
    submitted,      \* the files handed to process_batch so far
    proc,           \* App.proc: the handle of the child process, or None
    running,        \* the child processes that have not exited
    started,        \* the number of child processes started so far
    main_pc,        \* the position of the main thread inside a callback
    reader_pc,      \* the position of the reader thread in read_output
    fault           \* the call a callback made on a cleared handle

wrapVars == <<text, max_chars, max_lines, wrapped>>
polishVars == <<segments, cfg, polished>>
karaokeVars == <<min_word_ms, wx_json, speaker_prefix, ksegs, srt_wx>>
markupVars == <<seg_words, segment_start, min_cs, style_config, markup, style_data>>

srtVars == <<srt_file, glossary_map, polish, all_segments, out_srt, reparsed, rewritten>>

presetVars == <<args, res, all_presets, style_ref>>

testVars == <<palavras, subsegmentos>>

calcVars == <<calc_args, calc_result>>

batchVars == <<files, media, force, state, next_file, ok, fail>>

mergeVars == <<merged_tuples>>

whisperVars == <<prompt, attempts, attempt_no, last, invocations, cli_result>>

runsVars == <<options, disk, entry>>

watchVars == <<folder, seen, cached, new, submitted>>

guiVars == <<proc, running, started, main_pc, reader_pc, fault>>

vars == <<phase, wrapVars, polishVars, karaokeVars, markupVars, srtVars, presetVars, testVars, calcVars, batchVars, mergeVars, whisperVars, runsVars, watchVars, guiVars>>

\* The variables of the calls a specification does not make keep these values.
NoWrapCall == text = <<>> /\ max_chars = 0 /\ max_lines = 0 /\ wrapped = <<>>
NoPolishCall == segments = <<>> /\ cfg = <<>> /\ polished = <<>>
NoKaraokeCall ==
    min_word_ms = 0 /\ wx_json = <<>> /\ speaker_prefix = FALSE /\ ksegs = <<>> /\ srt_wx = <<>>
NoMarkupCall ==
    /\ seg_words = <<>> /\ segment_start = 0 /\ min_cs = 0
    /\ style_config = <<>> /\ markup = <<>> /\ style_data = <<>>
NoSrtCall ==
    /\ srt_file = <<>> /\ glossary_map = <<>> /\ polish = FALSE /\ all_segments = <<>>
    /\ out_srt = <<>> /\ reparsed = <<>> /\ rewritten = <<>>
NoPresetCall == args = <<>> /\ res = <<>> /\ all_presets = <<>> /\ style_ref = <<>>
NoTestCall == palavras = <<>> /\ subsegmentos = <<>>
NoCalcCall == calc_args = <<>> /\ calc_result = <<>>
NoBatchCall == files = <<>> /\ media = <<>> /\ force = <<>> /\ state = <<>> /\ next_file = <<>> /\ ok = <<>> /\ fail = <<>>
NoMergeCall == merged_tuples = <<>>
NoWhisperCall == prompt = <<>> /\ attempts = <<>> /\ attempt_no = <<>> /\ last = <<>> /\ invocations = <<>> /\ cli_result = <<>>
NoRunsCall == options = <<>> /\ disk = <<>> /\ entry = <<>>
NoWatchCall == folder = <<>> /\ seen = <<>> /\ cached = <<>> /\ new = <<>> /\ submitted = <<>>
NoGuiCall == proc = <<>> /\ running = <<>> /\ started = <<>> /\ main_pc = <<>> /\ reader_pc = <<>> /\ fault = <<>>

(***************************************************************************)
(* Bounds of the model.                                                    *)
(***************************************************************************)
MaxTextLen == 7
MaxWrapChars == 3
MaxWrapLines == 3

(***************************************************************************)
(* Python built-ins on strings and numbers.                                *)
(***************************************************************************)
Max(a, b) == IF a >= b THEN a ELSE b
Min(a, b) == IF a <= b THEN a ELSE b

\* The value a call that raised leaves in place of its result.
Raised == <<"raised">>

\* str.isspace() of one character.
IsSpace(c) == c \in {" ", "\n"}

\* All strings over alphabet of length at most n.
StringsUpTo(alphabet, n) == UNION {[1..k -> alphabet] : k \in 0..n}

\* s[i:] and s[i:j] with 0-based Python indices.
Slice(s, i, j) == SubSeq(s, i + 1, Min(j, Len(s)))

\* str.split(): the maximal runs of non-whitespace characters.
RECURSIVE SplitFrom(_, _, _, _)
SplitFrom(s, i, cur, acc) ==
    IF i > Len(s)
    THEN IF cur # <<>> THEN Append(acc, cur) ELSE acc
    ELSE IF IsSpace(s[i])
         THEN SplitFrom(s, i + 1, <<>>, IF cur # <<>> THEN Append(acc, cur) ELSE acc)
         ELSE SplitFrom(s, i + 1, Append(cur, s[i]), acc)

Split(s) == SplitFrom(s, 1, <<>>, <<>>)

\* str.split(sep) for a one-character separator: empty pieces are kept.
RECURSIVE SplitOnFrom(_, _, _, _, _)
SplitOnFrom(s, sep, i, cur, acc) ==
    IF i > Len(s)
    THEN Append(acc, cur)
    ELSE IF s[i] = sep
         THEN SplitOnFrom(s, sep, i + 1, <<>>, Append(acc, cur))
         ELSE SplitOnFrom(s, sep, i + 1, Append(cur, s[i]), acc)

SplitOn(s, sep) == SplitOnFrom(s, sep, 1, <<>>, <<>>)

\* sep.join(parts).
RECURSIVE Join(_, _)
Join(parts, sep) ==
    IF parts = <<>> THEN <<>>
    ELSE IF Len(parts) = 1 THEN parts[1]
    ELSE parts[1] \o sep \o Join(Tail(parts), sep)

\* str.lstrip(), str.rstrip(), str.strip().
RECURSIVE LStrip(_)
LStrip(s) == IF s # <<>> /\ IsSpace(s[1]) THEN LStrip(Tail(s)) ELSE s

RECURSIVE RStrip(_)
RStrip(s) ==
    IF s # <<>> /\ IsSpace(s[Len(s)]) THEN RStrip(SubSeq(s, 1, Len(s) - 1)) ELSE s

Strip(s) == LStrip(RStrip(s))

\* re.sub(r"\s+", " ", s): every run of whitespace becomes one space.
RECURSIVE CollapseWsFrom(_, _, _)
CollapseWsFrom(s, i, acc) ==
    IF i > Len(s) THEN acc
    ELSE IF IsSpace(s[i])
         THEN IF i > 1 /\ IsSpace(s[i - 1])
              THEN CollapseWsFrom(s, i + 1, acc)
              ELSE CollapseWsFrom(s, i + 1, Append(acc, " "))
         ELSE CollapseWsFrom(s, i + 1, Append(acc, s[i]))

CollapseWs(s) == CollapseWsFrom(s, 1, <<>>)

\* int(round(n / d)) for d > 0: Python rounds a half to the even neighbour.
RoundHalfEven(n, d) ==
    LET q == n \div d
        r == n % d
    IN  IF 2 * r < d THEN q
        ELSE IF 2 * r > d THEN q + 1
        ELSE IF q % 2 = 0 THEN q ELSE q + 1

\* math.ceil(n / d) for d > 0.
CeilDiv(n, d) == -((-n) \div d)

(***************************************************************************)
(* Time codec: "HH:MM:SS,mmm"                                              *)
(***************************************************************************)
Digits == <<"0", "1", "2", "3", "4", "5", "6", "7", "8", "9">>

\* str(n) for n >= 0.
RECURSIVE Dec(_)
Dec(n) == IF n < 10 THEN <<Digits[n + 1]>> ELSE Append(Dec(n \div 10), Digits[(n % 10) + 1])

\* f"{n:0wd}".
RECURSIVE ZeroPad(_, _)
ZeroPad(d, w) == IF Len(d) >= w THEN d ELSE ZeroPad(<<"0">> \o d, w)

\* int(s) of a string of decimal digits.
DigitValue(c) == CHOOSE v \in 0..9 : Digits[v + 1] = c

RECURSIVE ParseInt(_)
ParseInt(d) == IF d = <<>> THEN 0 ELSE 10 * ParseInt(SubSeq(d, 1, Len(d) - 1)) + DigitValue(d[Len(d)])

ms_to_srt_time(ms0) ==
    LET ms == Max(0, ms0)
        total_s == ms \div 1000
        msec == ms % 1000
        hh == total_s \div 3600
        mm == (total_s % 3600) \div 60
        ss == total_s % 60
    IN  ZeroPad(Dec(hh), 2) \o <<":">> \o ZeroPad(Dec(mm), 2) \o <<":">>
        \o ZeroPad(Dec(ss), 2) \o <<",">> \o ZeroPad(Dec(msec), 3)

srt_time_to_ms(ts) ==
    LET f == SplitOn(ts, ":")
        rest == SplitOn(f[3], ",")
    IN  (ParseInt(f[1]) * 3600 + ParseInt(f[2]) * 60 + ParseInt(rest[1])) * 1000 + ParseInt(rest[2])

SrtSegment(idx, start, end, txt) == [idx |-> idx, start |-> start, end |-> end, text |-> txt]

(***************************************************************************)
(* wrap_text                                                               *)
(***************************************************************************)
\* Phase A, also the inner loop of phase C: pack words into lines greedily.
RECURSIVE GreedyPackFrom(_, _, _, _, _)
GreedyPackFrom(words, i, cur, lines, maxc) ==
    IF i > Len(words)
    THEN IF cur # <<>> THEN Append(lines, cur) ELSE lines
    ELSE LET w == words[i] IN
         IF cur = <<>>
         THEN GreedyPackFrom(words, i + 1, w, lines, maxc)
         ELSE IF Len(cur) + 1 + Len(w) <= maxc
              THEN GreedyPackFrom(words, i + 1, cur \o <<" ">> \o w, lines, maxc)
              ELSE GreedyPackFrom(words, i + 1, w, Append(lines, cur), maxc)

GreedyPack(words, maxc) == GreedyPackFrom(words, 1, <<>>, <<>>, maxc)

\* Phase B: the words in maxl chunks by word count, the last taking the rest.
RECURSIVE RebalanceFrom(_, _, _, _, _)
RebalanceFrom(words, chunk, i, rounds, lines) ==
    IF rounds = 0 \/ Slice(words, i, i + chunk) = <<>>
    THEN Append(lines, Join(Slice(words, i, Len(words)), <<" ">>))
    ELSE RebalanceFrom(words, chunk, i + chunk, rounds - 1,
                       Append(lines, Join(Slice(words, i, i + chunk), <<" ">>)))

\* The mutant of Rebalance: the chunks start at the second word.
RebalanceFromSecondWord(words, maxl) ==
    RebalanceFrom(words, Max(1, Len(words) \div maxl), 1, Max(0, maxl - 1), <<>>)

Rebalance(words, maxl) ==
    RebalanceFrom(words, Max(1, Len(words) \div maxl), 0, Max(0, maxl - 1), <<>>)

\* Phase C with a line left as it is when it is too long.
HardRepackNoRepack(lines, maxc) == lines

\* Phase C: a line still longer than maxc is packed again on its own.
RECURSIVE HardRepack(_, _)
HardRepack(lines, maxc) ==
    IF lines = <<>> THEN <<>>
    ELSE (IF Len(lines[1]) <= maxc
          THEN <<lines[1]>>
          ELSE GreedyPack(Split(lines[1]), maxc))
         \o HardRepack(Tail(lines), maxc)

wrap_text(t, maxc, maxl) ==
    LET words == Split(t)
        greedy == GreedyPack(words, maxc)
    IN  IF words = <<>> THEN <<>>
        ELSE IF Len(greedy) > maxl /\ maxl = 0 THEN Raised   \* total // max_lines
        ELSE LET lines == IF Len(greedy) > maxl THEN Rebalance(words, maxl) ELSE greedy
                 final == HardRepack(lines, maxc)
             IN  Join(Slice(final, 0, maxl), <<"\n">>)

\* The lines of a string returned by wrap_text.
LinesOf(s) == IF s = <<>> THEN <<>> ELSE SplitOn(s, "\n")

(***************************************************************************)
(* One call of wrap_text.                                                  *)
(***************************************************************************)
WrapAlphabet == {"a", "b", " "}

InitWrap ==
    /\ phase = "input"
    /\ text \in StringsUpTo(WrapAlphabet, MaxTextLen)
    /\ max_chars \in 0..MaxWrapChars
    /\ max_lines \in 0..MaxWrapLines
    /\ wrapped = <<>>
    /\ NoPolishCall
    /\ NoKaraokeCall
    /\ NoMarkupCall
    /\ NoSrtCall
    /\ NoPresetCall
    /\ NoTestCall
    /\ NoCalcCall
    /\ NoBatchCall
    /\ NoMergeCall
    /\ NoWhisperCall
    /\ NoRunsCall
    /\ NoWatchCall
    /\ NoGuiCall

CallWrapText ==
    /\ phase = "input"
    /\ phase' = "wrap_text"
    /\ wrapped' = wrap_text(text, max_chars, max_lines)
    /\ UNCHANGED <<text, max_chars, max_lines, polishVars, karaokeVars, markupVars, srtVars, presetVars, testVars, calcVars, batchVars, mergeVars, whisperVars, runsVars, watchVars, guiVars>>

NextWrap == CallWrapText

SpecWrap == InitWrap /\ [][NextWrap]_vars

\* C4: no line returned by wrap_text is longer than max_chars, unless the
\* line is one single word that is itself longer than max_chars.
C4_LinesWithinMaxChars ==
    (phase = "wrap_text" /\ wrapped # Raised) =>
        \A i \in 1..Len(LinesOf(wrapped)) :
            LET ln == LinesOf(wrapped)[i] IN
            Len(ln) > max_chars => \A k \in 1..Len(ln) : ~IsSpace(ln[k])

\* A call whose greedy pass gave too many lines, whose rebalanced lines had
\* to be packed again, and whose result holds an over-long single word.
C4_Witness ==
    /\ phase = "wrap_text"
    /\ wrapped # Raised
    /\ Len(GreedyPack(Split(text), max_chars)) > max_lines
    /\ \E i \in 1..Len(Rebalance(Split(text), max_lines)) :
           /\ Len(Rebalance(Split(text), max_lines)[i]) > max_chars
           /\ Len(Split(Rebalance(Split(text), max_lines)[i])) >= 2
    /\ Len(LinesOf(wrapped)) >= 2
    /\ \E i \in 1..Len(LinesOf(wrapped)) : Len(LinesOf(wrapped)[i]) > max_chars

\* The words of the lines of a string returned by wrap_text, read in order.
RECURSIVE WordsOfLines(_)
WordsOfLines(lines) ==
    IF lines = <<>> THEN <<>> ELSE Split(lines[1]) \o WordsOfLines(Tail(lines))

\* The lines of wrap_text before the cut to max_lines (the list final).
RepackedLines ==
    LET words == Split(text)
        greedy == GreedyPack(words, max_chars)
    IN  HardRepack(IF Len(greedy) > max_lines THEN Rebalance(words, max_lines) ELSE greedy,
                   max_chars)

\* C23: wrap_text returns at most max_lines lines, the words of the returned
\* lines read in order are a prefix of the input's words, and no word is
\* lost when the re-packed lines number at most max_lines.
C23_WordsArePrefix ==
    (phase = "wrap_text" /\ wrapped # Raised) =>
        LET out == WordsOfLines(LinesOf(wrapped))
            words == Split(text)
        IN  /\ Len(LinesOf(wrapped)) <= max_lines
            /\ Len(out) <= Len(words)
            /\ out = SubSeq(words, 1, Len(out))
            /\ Len(RepackedLines) <= max_lines => out = words

\* A call that rebalanced, packed again and dropped words from the end.
C23_Witness ==
    /\ phase = "wrap_text"
    /\ wrapped # Raised
    /\ max_lines >= 2
    /\ Len(GreedyPack(Split(text), max_chars)) > max_lines
    /\ Len(LinesOf(wrapped)) = max_lines
    /\ Len(WordsOfLines(LinesOf(wrapped))) < Len(Split(text))
    /\ \E i, j \in 1..Len(Split(text)) : Split(text)[i] # Split(text)[j]


(***************************************************************************)
(* wrap_ass_line                                                           *)
(***************************************************************************)
\* str.split(sep) for a separator of several characters.
RECURSIVE SplitOnSeqFrom(_, _, _, _, _)
SplitOnSeqFrom(s, sep, i, cur, acc) ==
    IF i > Len(s)
    THEN Append(acc, cur)
    ELSE IF i + Len(sep) - 1 <= Len(s) /\ SubSeq(s, i, i + Len(sep) - 1) = sep
         THEN SplitOnSeqFrom(s, sep, i + Len(sep), <<>>, Append(acc, cur))
         ELSE SplitOnSeqFrom(s, sep, i + 1, Append(cur, s[i]), acc)

SplitOnSeq(s, sep) == SplitOnSeqFrom(s, sep, 1, <<>>, <<>>)

\* The line break of the markup, the two characters \N.
AssBreak == <<"\\", "N">>

\* The index of the first "}" of s at or after i, or 0.
RECURSIVE FindClose(_, _)
FindClose(s, i) ==
    IF i > Len(s) THEN 0
    ELSE IF s[i] = "}" THEN i
    ELSE FindClose(s, i + 1)

\* re.sub(r"\{[^}]*\}", "", s): every "{" up to the next "}" is removed.
RECURSIVE StripBlocksFrom(_, _, _)
StripBlocksFrom(s, i, acc) ==
    IF i > Len(s) THEN acc
    ELSE IF s[i] = "{" /\ FindClose(s, i + 1) # 0
         THEN StripBlocksFrom(s, FindClose(s, i + 1) + 1, acc)
         ELSE StripBlocksFrom(s, i + 1, Append(acc, s[i]))

StripBlocks(s) == StripBlocksFrom(s, 1, <<>>)

\* append_token(idx, tok) on the last line; st is [lines, visible_len].
append_token(st, tok) ==
    LET idx == Len(st.lines)
        vis == st.visible_len[idx]
    IN  [lines |-> [st.lines EXCEPT ![idx] =
                        IF st.lines[idx] # <<>> THEN st.lines[idx] \o <<" ">> \o tok
                        ELSE tok],
         visible_len |-> [st.visible_len EXCEPT ![idx] =
                        vis + Len(StripBlocks(tok)) + (IF vis > 0 THEN 1 ELSE 0)]]

\* The loop body with the line opened one character too late.
AssStepLate(st, tok, maxc, maxl) ==
    LET wlen == Len(StripBlocks(tok))
        vis == st.visible_len[Len(st.lines)]
        projected == vis + (IF vis > 0 THEN 1 ELSE 0) + wlen
    IN  IF tok = <<>> THEN st
        ELSE IF vis > 0 /\ projected > maxc + 1
        THEN IF maxl # 0 /\ Len(st.lines) >= maxl
             THEN append_token(st, tok)
             ELSE [lines |-> Append(st.lines, tok),
                   visible_len |-> Append(st.visible_len, wlen)]
        ELSE append_token(st, tok)

\* The loop body of wrap_ass_line for one token.
AssStep(st, tok, maxc, maxl) ==
    LET wlen == Len(StripBlocks(tok))
        vis == st.visible_len[Len(st.lines)]
        projected == vis + (IF vis > 0 THEN 1 ELSE 0) + wlen
    IN  IF tok = <<>> THEN st
        ELSE IF vis > 0 /\ projected > maxc
        THEN IF maxl # 0 /\ Len(st.lines) >= maxl
             THEN append_token(st, tok)    \* forced onto the last line
             ELSE [lines |-> Append(st.lines, tok),
                   visible_len |-> Append(st.visible_len, wlen)]
        ELSE append_token(st, tok)

RECURSIVE AssLoop(_, _, _, _, _)
AssLoop(tokens, i, st, maxc, maxl) ==
    IF i > Len(tokens) THEN st
    ELSE AssLoop(tokens, i + 1, AssStep(st, tokens[i], maxc, maxl), maxc, maxl)

wrap_ass_line(t, maxc, maxl) ==
    IF maxc <= 0 THEN t
    ELSE Join(AssLoop(SplitOn(t, " "), 1,
                      [lines |-> <<(<<>>)>>, visible_len |-> <<0>>],
                      maxc, maxl).lines,
              AssBreak)

(***************************************************************************)
(* One call of wrap_ass_line.                                              *)
(***************************************************************************)
MaxAssLen == 6
MaxAssChars == 2
MaxAssLines == 2

AssAlphabet == {"a", " ", "{", "}"}

InitAss ==
    /\ phase = "input"
    /\ text \in StringsUpTo(AssAlphabet, MaxAssLen)
    /\ max_chars \in 0..MaxAssChars
    /\ max_lines \in 0..MaxAssLines
    /\ wrapped = <<>>
    /\ NoPolishCall
    /\ NoKaraokeCall
    /\ NoMarkupCall
    /\ NoSrtCall
    /\ NoPresetCall
    /\ NoTestCall
    /\ NoCalcCall
    /\ NoBatchCall
    /\ NoMergeCall
    /\ NoWhisperCall
    /\ NoRunsCall
    /\ NoWatchCall
    /\ NoGuiCall

CallWrapAssLine ==
    /\ phase = "input"
    /\ phase' = "wrap_ass_line"
    /\ wrapped' = wrap_ass_line(text, max_chars, max_lines)
    /\ UNCHANGED <<text, max_chars, max_lines, polishVars, karaokeVars, markupVars, srtVars, presetVars, testVars, calcVars, batchVars, mergeVars, whisperVars, runsVars, watchVars, guiVars>>

NextAss == CallWrapAssLine

SpecAss == InitAss /\ [][NextAss]_vars

\* The lines of a string returned by wrap_ass_line, and the tokens of a line.
AssLinesOf(s) == SplitOnSeq(s, AssBreak)
TokensOf(ln) == SelectSeq(SplitOn(ln, " "), LAMBDA tok : tok # <<>>)

\* The visible characters of a line: what is left of it outside {...} blocks.
VisibleLen(ln) == Len(StripBlocks(ln))

\* The visible characters of a line counted token by token: the characters of
\* each token outside its {...} blocks, and one space before a token once a
\* visible character precedes it on the line.
RECURSIVE TokenVisibleLen(_)
TokenVisibleLen(toks) ==
    IF toks = <<>> THEN 0
    ELSE LET before == TokenVisibleLen(SubSeq(toks, 1, Len(toks) - 1))
         IN  before + Len(StripBlocks(toks[Len(toks)])) + (IF before > 0 THEN 1 ELSE 0)

\* The tokens of a line that carry visible text.
VisibleTokens(ln) == SelectSeq(TokensOf(ln), LAMBDA tok : StripBlocks(tok) # <<>>)

\* The {...} blocks of a string, in order: each "{" up to the next "}".
RECURSIVE BlocksFrom(_, _, _)
BlocksFrom(s, i, acc) ==
    IF i > Len(s) THEN acc
    ELSE IF s[i] = "{" /\ FindClose(s, i + 1) # 0
         THEN BlocksFrom(s, FindClose(s, i + 1) + 1, Append(acc, SubSeq(s, i, FindClose(s, i + 1))))
         ELSE BlocksFrom(s, i + 1, acc)

Blocks(s) == BlocksFrom(s, 1, <<>>)

\* The tokens of the lines of a string returned by wrap_ass_line, in order.
RECURSIVE TokensOfLines(_)
TokensOfLines(lines) ==
    IF lines = <<>> THEN <<>> ELSE TokensOf(lines[1]) \o TokensOfLines(Tail(lines))

\* C24: wrap_ass_line loses and splits nothing: the tokens of the result,
\* with each line break read as a space, are the non-empty space-separated
\* tokens of the input in order; every {...} block of the input is in the
\* result unchanged; and with max_lines > 0 the tokens beyond the last line
\* are on the last line, so the lines number at most max_lines.
C24_NothingLostOrSplit ==
    phase = "wrap_ass_line" =>
        /\ TokensOfLines(AssLinesOf(wrapped)) = TokensOf(text)
        /\ Blocks(wrapped) = Blocks(text)
        /\ (max_chars > 0 /\ max_lines > 0) => Len(AssLinesOf(wrapped)) <= max_lines

\* The part of C24 the code keeps: no token is lost or reordered and the
\* line count stays within max_lines.
C24_TokensKept ==
    phase = "wrap_ass_line" =>
        /\ TokensOfLines(AssLinesOf(wrapped)) = TokensOf(text)
        /\ (max_chars > 0 /\ max_lines > 0) => Len(AssLinesOf(wrapped)) <= max_lines

\* C5 as stated: with max_chars > 0 and max_lines > 0 the result has at most
\* max_lines lines and every line has at most max_chars visible characters,
\* unless the line is a single token whose visible text exceeds max_chars.
C5_EveryLineWithinMaxChars ==
    (phase = "wrap_ass_line" /\ max_chars > 0 /\ max_lines > 0) =>
        /\ Len(AssLinesOf(wrapped)) <= max_lines
        /\ \A i \in 1..Len(AssLinesOf(wrapped)) :
               LET ln == AssLinesOf(wrapped)[i] IN
               VisibleLen(ln) > max_chars =>
                   /\ Len(TokensOf(ln)) = 1
                   /\ Len(StripBlocks(TokensOf(ln)[1])) > max_chars

\* C5 amended: with max_chars > 0 and max_lines > 0 the result has at most
\* max_lines lines, and every line before the max_lines-th has at most
\* max_chars visible characters counted token by token, unless exactly one of
\* its tokens has visible text and that text alone exceeds max_chars.  The
\* max_lines-th line takes every remaining token and may be longer.
C5_LinesBeforeLastWithinMaxChars ==
    (phase = "wrap_ass_line" /\ max_chars > 0 /\ max_lines > 0) =>
        /\ Len(AssLinesOf(wrapped)) <= max_lines
        /\ \A i \in 1..Len(AssLinesOf(wrapped)) :
               LET ln == AssLinesOf(wrapped)[i] IN
               (i < max_lines /\ TokenVisibleLen(TokensOf(ln)) > max_chars) =>
                   /\ Len(VisibleTokens(ln)) = 1
                   /\ Len(StripBlocks(VisibleTokens(ln)[1])) > max_chars

\* A call that stripped a block, filled max_lines = 2 lines, kept the first
\* within the limit and forced the overflow onto the last.
C5_Witness ==
    /\ phase = "wrap_ass_line"
    /\ max_chars > 0
    /\ max_lines = 2
    /\ Len(AssLinesOf(wrapped)) = 2
    /\ StripBlocks(text) # text
    /\ TokenVisibleLen(TokensOf(AssLinesOf(wrapped)[1])) <= max_chars
    /\ Len(VisibleTokens(AssLinesOf(wrapped)[2])) >= 2
    /\ TokenVisibleLen(TokensOf(AssLinesOf(wrapped)[2])) > max_chars


(***************************************************************************)
(* polish_segments                                                         *)
(* A tuple of the passes is <<st, en, txt>>; c holds the arguments         *)
(* max_chars_per_line, max_lines, max_cps, min_dur_ms, max_dur_ms and      *)
(* merge_gap_ms.  max_cps is a whole number of characters per second and   *)
(* max_dur_ms is positive (dur / max_dur_ms).                              *)
(***************************************************************************)
\* The tuples of the segments whose normalised text is not empty.
RECURSIVE ItemsFrom(_, _, _)
ItemsFrom(segs, i, items) ==
    IF i > Len(segs) THEN items
    ELSE LET st == srt_time_to_ms(segs[i].start)
             en == Max(st, srt_time_to_ms(segs[i].end))
             txt == Strip(CollapseWs(segs[i].text))
         IN  ItemsFrom(segs, i + 1,
                       IF txt # <<>> THEN Append(items, <<st, en, txt>>) ELSE items)

Items(segs) == ItemsFrom(segs, 1, <<>>)

\* The merge pass: one scan, a tuple joins the previous one when the gap
\* between them is in [0, merge_gap_ms].
RECURSIVE MergeFrom(_, _, _, _)
MergeFrom(items, i, merged, merge_gap_ms) ==
    IF i > Len(items) THEN merged
    ELSE IF merged = <<>> THEN MergeFrom(items, i + 1, <<items[i]>>, merge_gap_ms)
    ELSE LET prev == merged[Len(merged)]
             gap == items[i][1] - prev[2]
         IN  IF 0 <= gap /\ gap <= merge_gap_ms
             THEN MergeFrom(items, i + 1,
                      [merged EXCEPT ![Len(merged)] =
                          <<prev[1], items[i][2], Strip(prev[3] \o <<" ">> \o items[i][3])>>],
                      merge_gap_ms)
             ELSE MergeFrom(items, i + 1, Append(merged, items[i]), merge_gap_ms)

\* The mutant of Merge: no tuple joins the previous one.
MergeNothing(items, merge_gap_ms) == items

Merge(items, merge_gap_ms) == MergeFrom(items, 1, <<>>, merge_gap_ms)

\* The end of a tuple after the minimum-duration step.
MinDurationEnd(st, en, c) ==
    IF Max(1, en - st) < c.min_dur_ms THEN st + c.min_dur_ms ELSE en

\* dur after the minimum-duration step.
MinDurationDur(st, en, c) ==
    IF Max(1, en - st) < c.min_dur_ms THEN c.min_dur_ms ELSE Max(1, en - st)

\* The chunks of a long segment: the loop over range(0, total_words, chunk_size).
RECURSIVE ChunkLoop(_, _, _, _, _, _, _)
ChunkLoop(words, idx, chunk_size, cur_time, en, c, acc) ==
    IF idx >= Len(words) THEN acc
    ELSE LET wchunk == Slice(words, idx, idx + chunk_size)
             remaining == Len(words) - idx
             remaining_time == en - cur_time
             est == Max(c.min_dur_ms,
                        Min(RoundHalfEven(remaining_time * Len(wchunk), remaining),
                            c.max_dur_ms))
             chunk_end == IF idx + chunk_size >= Len(words) THEN en ELSE cur_time + est
         IN  ChunkLoop(words, idx + chunk_size, chunk_size, chunk_end, en, c,
                       Append(acc, <<cur_time, chunk_end, Strip(Join(wchunk, <<" ">>))>>))

\* The mutant of SplitLong: the walk starts at the second word.
SplitLongFromSecondWord(st, en, dur, words, c) ==
    LET parts == Max(2, CeilDiv(dur, c.max_dur_ms))
        chunk_size == Max(1, Len(words) \div parts)
    IN  ChunkLoop(words, 1, chunk_size, st, en, c, <<>>)

SplitLong(st, en, dur, words, c) ==
    LET parts == Max(2, CeilDiv(dur, c.max_dur_ms))
        chunk_size == Max(1, Len(words) \div parts)
    IN  ChunkLoop(words, 0, chunk_size, st, en, c, <<>>)

\* The mutant of ReadingSpeedEnd: the start of the following tuple is not
\* looked at.
ReadingSpeedEndAlone(merged, i, st, en, dur, txt, c) ==
    LET chars == Len(txt)
        target == Max(c.min_dur_ms, Min((chars * 1000) \div c.max_cps, c.max_dur_ms))
    IN  IF chars * 1000 > c.max_cps * dur THEN st + target ELSE en

\* The end of a tuple that is not split, after the reading-speed step.
ReadingSpeedEnd(merged, i, st, en, dur, txt, c) ==
    LET chars == Len(txt)
        target == Max(c.min_dur_ms, Min((chars * 1000) \div c.max_cps, c.max_dur_ms))
    IN  IF chars * 1000 > c.max_cps * dur        \* cps > max_cps
        THEN IF i < Len(merged)
             THEN Min(st + target, Max(st + 1, merged[i + 1][1] - 1))
             ELSE st + target
        ELSE en

\* The tuples one merged tuple gives: its chunks, or itself adjusted.
AdjustOne(merged, i, c) ==
    LET st == merged[i][1]
        txt == merged[i][3]
        words == Split(txt)
        en == MinDurationEnd(st, merged[i][2], c)
        dur == MinDurationDur(st, merged[i][2], c)
    IN  IF dur > c.max_dur_ms /\ Len(words) >= 4
        THEN SplitLong(st, en, dur, words, c)
        ELSE <<(<<st, ReadingSpeedEnd(merged, i, st, en, dur, txt, c), txt>>)>>

RECURSIVE AdjustFrom(_, _, _)
AdjustFrom(merged, i, c) ==
    IF i > Len(merged) THEN <<>>
    ELSE AdjustOne(merged, i, c) \o AdjustFrom(merged, i + 1, c)

Adjusted(segs, c) == AdjustFrom(Merge(Items(segs), c.merge_gap_ms), 1, c)

polish_segments(segs, c) ==
    LET adjusted == Adjusted(segs, c)
        out == [j \in 1..Len(adjusted) |->
                   SrtSegment(j, ms_to_srt_time(adjusted[j][1]), ms_to_srt_time(adjusted[j][2]),
                              wrap_text(adjusted[j][3], c.max_chars_per_line, c.max_lines))]
    IN  IF segs = <<>> THEN <<>>
        ELSE IF \E j \in 1..Len(out) : out[j].text = Raised THEN Raised
        ELSE out

\* Start and end of a returned segment, in milliseconds.
StartMs(seg) == srt_time_to_ms(seg.start)
EndMs(seg) == srt_time_to_ms(seg.end)

(***************************************************************************)
(* One call of polish_segments: on a list of short segments, or on one     *)
(* segment long enough to be split.  Times are multiples of 100 ms.        *)
(***************************************************************************)
MaxSegs == 2
MaxTick == 3
MaxSplitTick == 14
MaxWords == 5

Ticks(n) == {100 * k : k \in 0..n}

\* The text of n one-letter words.
WordsText(n) == Join([k \in 1..n |-> <<(<<"a", "b", "c", "d", "e", "f", "g">>)[k]>>], <<" ">>)

ShortTexts == {<<>>, <<"a">>, <<"b", " ", " ", "c">>}

SeqsUpTo(S, n) == UNION {[1..k -> S] : k \in 0..n}

ShortSegments ==
    {SrtSegment(0, ms_to_srt_time(st), ms_to_srt_time(en), txt) :
        st \in Ticks(MaxTick), en \in Ticks(MaxTick), txt \in ShortTexts}

LongSegments ==
    {SrtSegment(0, ms_to_srt_time(st), ms_to_srt_time(st + d), WordsText(n)) :
        st \in Ticks(1), d \in Ticks(MaxSplitTick), n \in 4..MaxWords}

PolishConfigs ==
    [max_chars_per_line : {3, 42}, max_lines : {2}, max_cps : {10, 40},
     min_dur_ms : {100, 300}, max_dur_ms : {300, 600}, merge_gap_ms : {0, 100}]

InitPolish ==
    /\ phase = "input"
    /\ \/ segments \in SeqsUpTo(ShortSegments, MaxSegs)
       \/ segments \in [1..1 -> LongSegments]
    /\ cfg \in PolishConfigs
    /\ polished = <<>>
    /\ NoWrapCall
    /\ NoKaraokeCall
    /\ NoMarkupCall
    /\ NoSrtCall
    /\ NoPresetCall
    /\ NoTestCall
    /\ NoCalcCall
    /\ NoBatchCall
    /\ NoMergeCall
    /\ NoWhisperCall
    /\ NoRunsCall
    /\ NoWatchCall
    /\ NoGuiCall

CallPolishSegments ==
    /\ phase = "input"
    /\ phase' = "polish_segments"
    /\ polished' = polish_segments(segments, cfg)
    /\ UNCHANGED <<segments, cfg, wrapVars, karaokeVars, markupVars, srtVars, presetVars, testVars, calcVars, batchVars, mergeVars, whisperVars, runsVars, watchVars, guiVars>>

NextPolish == CallPolishSegments

SpecPolish == InitPolish /\ [][NextPolish]_vars

\* The segments are well formed (end >= start), in time order and disjoint.
TimeOrdered(segs) ==
    /\ \A i \in 1..Len(segs) : StartMs(segs[i]) <= EndMs(segs[i])
    /\ \A i \in 1..Len(segs) - 1 : EndMs(segs[i]) <= StartMs(segs[i + 1])

\* C1: the list polish_segments returns for a time-ordered, non-overlapping
\* input holds no two overlapping tuples: end(i) <= start(i+1) for
\* consecutive tuples.
C1_NoOverlap ==
    (phase = "polish_segments" /\ TimeOrdered(segments)) =>
        \A j \in 1..Len(polished) - 1 : EndMs(polished[j]) <= StartMs(polished[j + 1])

\* C2: every tuple polish_segments returns (the chunks of a split segment
\* included) lasts at least min_dur_ms, except a tuple whose end was limited
\* by the start of the tuple that follows it.
C2_MinDuration ==
    (phase = "polish_segments" /\ TimeOrdered(segments)) =>
        \A j \in 1..Len(polished) :
            \/ EndMs(polished[j]) - StartMs(polished[j]) >= cfg.min_dur_ms
            \/ /\ j < Len(polished)
               /\ EndMs(polished[j]) >= StartMs(polished[j + 1]) - 1

\* C9: every tuple polish_segments returns has end >= start, the chunks of a
\* split segment included.
C9_EndNotBeforeStart ==
    (phase = "polish_segments" /\ TimeOrdered(segments) /\ cfg.min_dur_ms <= cfg.max_dur_ms) =>
        \A j \in 1..Len(polished) : EndMs(polished[j]) >= StartMs(polished[j])


(***************************************************************************)
(* Word and KaraokeSegment.  Their start and end are seconds held as       *)
(* floats; here a number of seconds is the whole number of tenths of a     *)
(* millisecond it amounts to, so that x * 1000 and x * 100 still round.    *)
(***************************************************************************)
Word(start, end, txt) == [start |-> start, end |-> end, text |-> txt]

KaraokeSegment(start, end, words, speaker) ==
    [start |-> start, end |-> end, words |-> words, speaker |-> speaker]

\* ms / 1000.0
SecondsOfMs(ms) == ms * 10

\* The value None, and a value that is not None.
None == <<>>
Some(x) == <<x>>

(***************************************************************************)
(* build_karaoke_from_srt_approx                                           *)
(***************************************************************************)
\* str.splitlines(): the pieces between line breaks, no empty piece at the end.
SplitLines(s) ==
    LET pieces == SplitOn(s, "\n")
    IN  IF pieces[Len(pieces)] = <<>> THEN SubSeq(pieces, 1, Len(pieces) - 1) ELSE pieces

\* [w for w in re.split(r"\s+", text) if w]
ReSplitWords(s) == SelectSeq(SplitOn(CollapseWs(s), " "), LAMBDA w : w # <<>>)

\* sum(char_counts)
RECURSIVE TotalChars(_)
TotalChars(words) ==
    IF words = <<>> THEN 0 ELSE Max(1, Len(words[1])) + TotalChars(Tail(words))

\* The end of word i with the last word ending like the others.
WordEndNotAligned(i, n, cur, word_dur, en_ms) == Min(en_ms, cur + word_dur)

\* The end of word i of n: the last word ends at the segment end.
WordEnd(i, n, cur, word_dur, en_ms) ==
    IF i = n THEN en_ms ELSE Min(en_ms, cur + word_dur)

\* The loop over the words of one segment; i is 1-based.
RECURSIVE ApproxWords(_, _, _, _, _, _, _)
ApproxWords(words, i, cur, dur, en_ms, min_ms, ww) ==
    IF i > Len(words) THEN ww
    ELSE LET word_dur == Max(min_ms,
                             RoundHalfEven(dur * Max(1, Len(words[i])), TotalChars(words)))
             w_en == WordEnd(i, Len(words), cur, word_dur, en_ms)
         IN  ApproxWords(words, i + 1, w_en, dur, en_ms, min_ms,
                         Append(ww, Word(SecondsOfMs(cur), SecondsOfMs(w_en), words[i])))

\* The words of a segment's text.
ApproxSegmentWords(seg) == ReSplitWords(Strip(Join(SplitLines(seg.text), <<" ">>)))

RECURSIVE build_karaoke_from_srt_approx(_, _)
build_karaoke_from_srt_approx(segs, min_ms) ==
    IF segs = <<>> THEN <<>>
    ELSE LET s == segs[1]
             st_ms == srt_time_to_ms(s.start)
             en_ms == srt_time_to_ms(s.end)
             dur == Max(1, en_ms - st_ms)
             words == ApproxSegmentWords(s)
         IN  (IF words = <<>> THEN <<>>
              ELSE <<KaraokeSegment(SecondsOfMs(st_ms), SecondsOfMs(en_ms),
                                    ApproxWords(words, 1, st_ms, dur, en_ms, min_ms, <<>>),
                                    None)>>)
             \o build_karaoke_from_srt_approx(Tail(segs), min_ms)

(***************************************************************************)
(* One call of build_karaoke_from_srt_approx.  Times are multiples of      *)
(* 50 ms; a segment may end at or before its start.                        *)
(***************************************************************************)
MaxApproxSegs == 1
MaxApproxTick == 4
MaxApproxLen == 5

ApproxAlphabet == {"a", " ", "\n"}

ApproxSegments ==
    {SrtSegment(0, ms_to_srt_time(st), ms_to_srt_time(en), txt) :
        st \in {0, 50}, en \in {50 * k : k \in 0..MaxApproxTick},
        txt \in StringsUpTo(ApproxAlphabet, MaxApproxLen)}

InitApprox ==
    /\ phase = "input"
    /\ segments \in {[i \in 1..n |-> seg] : n \in 0..MaxApproxSegs, seg \in ApproxSegments}
    /\ min_word_ms \in {0, 60}
    /\ ksegs = <<>>
    /\ wx_json = <<>> /\ speaker_prefix = FALSE /\ srt_wx = <<>>
    /\ cfg = <<>> /\ polished = <<>>
    /\ NoWrapCall
    /\ NoMarkupCall
    /\ NoSrtCall
    /\ NoPresetCall
    /\ NoTestCall
    /\ NoCalcCall
    /\ NoBatchCall
    /\ NoMergeCall
    /\ NoWhisperCall
    /\ NoRunsCall
    /\ NoWatchCall
    /\ NoGuiCall

CallApprox ==
    /\ phase = "input"
    /\ phase' = "build_karaoke_from_srt_approx"
    /\ ksegs' = build_karaoke_from_srt_approx(segments, min_word_ms)
    /\ UNCHANGED <<segments, min_word_ms, cfg, polished, wx_json, speaker_prefix, srt_wx, wrapVars, markupVars, srtVars, presetVars, testVars, calcVars, batchVars, mergeVars, whisperVars, runsVars, watchVars, guiVars>>

NextApprox == CallApprox

SpecApprox == InitApprox /\ [][NextApprox]_vars

\* The sum of the durations of a list of words.
RECURSIVE SumDurations(_)
SumDurations(ww) ==
    IF ww = <<>> THEN 0 ELSE (ww[1].end - ww[1].start) + SumDurations(Tail(ww))

\* The segments with at least one word, which are those that give a KaraokeSegment.
WithWords(segs) == SelectSeq(segs, LAMBDA s : Split(s.text) # <<>>)

\* C3: for every segment with at least one word the durations of the words
\* build_karaoke_from_srt_approx produces sum to the segment duration
\* (end - start), and the last word ends at the segment end.
C3_WordsSpanSegment ==
    phase = "build_karaoke_from_srt_approx" =>
        /\ Len(ksegs) = Len(WithWords(segments))
        /\ \A k \in 1..Len(ksegs) :
               LET seg == WithWords(segments)[k]
                   ww == ksegs[k].words
               IN  /\ Len(ww) = Len(Split(seg.text))
                   /\ SumDurations(ww) = SecondsOfMs(EndMs(seg) - StartMs(seg))
                   /\ ww[Len(ww)].end = SecondsOfMs(EndMs(seg))

\* A segment of three words or more whose last word, ending at the segment
\* end, does not last what its share of the characters would give it.
C3_Witness ==
    /\ phase = "build_karaoke_from_srt_approx"
    /\ \E k \in 1..Len(ksegs) :
           LET seg == WithWords(segments)[k]
               ww == ksegs[k].words
               n == Len(ww)
           IN  /\ n >= 3
               /\ EndMs(seg) > StartMs(seg)
               /\ ww[n].end - ww[n].start #
                      SecondsOfMs(Max(min_word_ms,
                          RoundHalfEven((EndMs(seg) - StartMs(seg)) * Max(1, Len(ww[n].text)),
                                        TotalChars(ApproxSegmentWords(seg)))))

\* C10: a segment whose input span has end <= start is emitted with end
\* strictly greater than start; here for the KaraokeSegment that
\* build_karaoke_from_srt_approx emits for such a segment.
C10_DegenerateSpanRepaired ==
    phase = "build_karaoke_from_srt_approx" =>
        \A k \in 1..Len(ksegs) :
            LET seg == WithWords(segments)[k]
            IN  EndMs(seg) <= StartMs(seg) => ksegs[k].end > ksegs[k].start


(***************************************************************************)
(* load_whisperx_json_words.  The JSON file is its list of segments; a     *)
(* segment is a record with start, end, speaker and words, a word a record *)
(* with start, end, word and text; a key the file lacks holds None.        *)
(***************************************************************************)
\* float(x), or float(default) when float(x) raises, as it does for None.
_safe_float(x, default) == IF x = None THEN default ELSE x[1]

\* x or y, for x a string or None.
OrElse(x, y) == IF x = None \/ x = Some(<<>>) THEN y ELSE x

\* 0.01 seconds.
TenMs == 100

\* The end given to a word.
WordRepair(wst, wen) == IF wen <= wst THEN wst + TenMs ELSE wen

\* The loop over words_raw.
RECURSIVE LoadWords(_, _)
LoadWords(words_raw, st) ==
    IF words_raw = <<>> THEN <<>>
    ELSE LET w == words_raw[1]
             wst == _safe_float(w.start, st)
             wen == _safe_float(w.end, wst)
             txt == Strip(OrElse(OrElse(w.word, w.text), Some(<<>>))[1])
         IN  (IF txt = <<>> THEN <<>> ELSE <<Word(wst, WordRepair(wst, wen), txt)>>)
             \o LoadWords(Tail(words_raw), st)

\* min(w.start for w in words) and max(w.end for w in words)
MinStart(ww) == CHOOSE x \in {ww[i].start : i \in 1..Len(ww)} :
                    \A i \in 1..Len(ww) : x <= ww[i].start
MaxEnd(ww) == CHOOSE x \in {ww[i].end : i \in 1..Len(ww)} :
                  \A i \in 1..Len(ww) : x >= ww[i].end

RECURSIVE load_whisperx_json_words(_)
load_whisperx_json_words(segs_raw) ==
    IF segs_raw = <<>> THEN <<>>
    ELSE LET s == segs_raw[1]
             st == _safe_float(s.start, 0)
             en == _safe_float(s.end, st)
             words == LoadWords(s.words, st)
         IN  (IF words = <<>> THEN <<>>
              ELSE <<KaraokeSegment(Min(st, MinStart(words)), Max(en, MaxEnd(words)),
                                    words, s.speaker)>>)
             \o load_whisperx_json_words(Tail(segs_raw))

(***************************************************************************)
(* whisperx_segments_to_srt_segments                                       *)
(***************************************************************************)
\* int(round(x * 1000)) for x a number of seconds.
MsOfSeconds(x) == RoundHalfEven(x, 10)

\* The stripped texts of the words that have one.
RECURSIVE StrippedTexts(_)
StrippedTexts(ww) ==
    IF ww = <<>> THEN <<>>
    ELSE (IF Strip(ww[1].text) = <<>> THEN <<>> ELSE <<Strip(ww[1].text)>>)
         \o StrippedTexts(Tail(ww))

\* The loop over enumerate(ksegs, 1), from index i.
RECURSIVE ToSrtFrom(_, _, _)
ToSrtFrom(kk, i, prefix) ==
    IF i > Len(kk) THEN <<>>
    ELSE LET ks == kk[i]
             st_ms == MsOfSeconds(ks.start)
             en0 == MsOfSeconds(ks.end)
             en_ms == IF en0 <= st_ms THEN st_ms + 1 ELSE en0
             words == StrippedTexts(ks.words)
             joined == Strip(Join(words, <<" ">>))
             txt == IF prefix /\ ks.speaker # None /\ ks.speaker # Some(<<>>)
                    THEN <<"[">> \o ks.speaker[1] \o <<"]", " ">> \o joined
                    ELSE joined
         IN  (IF words = <<>> THEN <<>>
              ELSE <<SrtSegment(i, ms_to_srt_time(st_ms), ms_to_srt_time(en_ms), txt)>>)
             \o ToSrtFrom(kk, i + 1, prefix)

whisperx_segments_to_srt_segments(kk, prefix) == ToSrtFrom(kk, 1, prefix)

(***************************************************************************)
(* The WhisperX sidecar: the JSON file is loaded and its segments are      *)
(* turned into SRT segments.  Times of the file are tenths of a            *)
(* millisecond: 4 is 0.0004 s, 15 is 0.0015 s.                             *)
(***************************************************************************)
MaxWxSegs == 1
MaxWxWords == 2

WxWordStarts == {None, Some(0), Some(4), Some(15)}
WxWordEnds == {None, Some(4), Some(15)}
WxWordTexts ==
    {[word |-> Some(<<"a">>), text |-> None],
     [word |-> None, text |-> Some(<<" ", "b">>)],
     [word |-> Some(<<" ">>), text |-> None]}

WxWords ==
    {[start |-> a, end |-> b, word |-> t.word, text |-> t.text] :
        a \in WxWordStarts, b \in WxWordEnds, t \in WxWordTexts}

WxSegments ==
    [start : {None, Some(0), Some(4)}, end : {None, Some(15)}, speaker : {None, Some(<<"S">>)},
     words : SeqsUpTo(WxWords, MaxWxWords)]

InitWhisperX ==
    /\ phase = "input"
    /\ wx_json \in SeqsUpTo(WxSegments, MaxWxSegs)
    /\ speaker_prefix \in BOOLEAN
    /\ ksegs = <<>>
    /\ srt_wx = <<>>
    /\ min_word_ms = 0
    /\ NoWrapCall
    /\ NoPolishCall
    /\ NoMarkupCall
    /\ NoSrtCall
    /\ NoPresetCall
    /\ NoTestCall
    /\ NoCalcCall
    /\ NoBatchCall
    /\ NoMergeCall
    /\ NoWhisperCall
    /\ NoRunsCall
    /\ NoWatchCall
    /\ NoGuiCall

LoadWhisperX ==
    /\ phase = "input"
    /\ phase' = "load_whisperx_json_words"
    /\ ksegs' = load_whisperx_json_words(wx_json)
    /\ UNCHANGED <<wx_json, speaker_prefix, srt_wx, min_word_ms, wrapVars, polishVars, markupVars, srtVars, presetVars, testVars, calcVars, batchVars, mergeVars, whisperVars, runsVars, watchVars, guiVars>>

ToSrtSegments ==
    /\ phase = "load_whisperx_json_words"
    /\ phase' = "whisperx_segments_to_srt_segments"
    /\ srt_wx' = whisperx_segments_to_srt_segments(ksegs, speaker_prefix)
    /\ UNCHANGED <<wx_json, speaker_prefix, ksegs, min_word_ms, wrapVars, polishVars, markupVars, srtVars, presetVars, testVars, calcVars, batchVars, mergeVars, whisperVars, runsVars, watchVars, guiVars>>

NextWhisperX == LoadWhisperX \/ ToSrtSegments

SpecWhisperX == InitWhisperX /\ [][NextWhisperX]_vars

\* The timestamps the file gives are in order: within a segment every word
\* that has a start and an end ends after it starts, the starts the words
\* have do not decrease, and no timestamp lies outside the segment's span.
WellFormedJson(segs_raw) ==
    \A k \in 1..Len(segs_raw) :
        LET s == segs_raw[k]
            n == Len(s.words)
        IN  /\ s.start # None /\ s.end # None /\ s.start[1] < s.end[1]
            /\ \A i \in 1..n :
                   /\ s.words[i].start # None => s.start[1] <= s.words[i].start[1]
                   /\ s.words[i].end # None => s.words[i].end[1] <= s.end[1]
                   /\ (s.words[i].start # None /\ s.words[i].end # None)
                          => s.words[i].start[1] < s.words[i].end[1]
            /\ \A i, j \in 1..n :
                   (i < j /\ s.words[i].start # None /\ s.words[j].start # None)
                       => s.words[i].start[1] <= s.words[j].start[1]

\* C8: in every KaraokeSegment load_whisperx_json_words produces the words'
\* start times do not decrease in sequence order and no word ends after the
\* segment's end.
C8_WordsOrderedWithinSegment ==
    (phase = "load_whisperx_json_words" /\ WellFormedJson(wx_json)) =>
        \A k \in 1..Len(ksegs) :
            LET ww == ksegs[k].words
            IN  /\ \A i \in 1..Len(ww) - 1 : ww[i].start <= ww[i + 1].start
                /\ \A i \in 1..Len(ww) : ww[i].end <= ksegs[k].end

(***************************************************************************)
(* build_karaoke_text and build_karaoke_text_capcut                        *)
(***************************************************************************)
\* text.replace("{", "").replace("}", "")
RemoveBraces(s) == SelectSeq(s, LAMBDA c : c \notin {"{", "}"})

\* str.upper() of one character and of a string.
UpperChar(c) == IF c = "a" THEN "A" ELSE IF c = "b" THEN "B" ELSE c
Upper(s) == [i \in 1..Len(s) |-> UpperChar(s[i])]

\* delay_seconds with the delay of a later word taken from the end of the
\* word before it.
DelayFromPrevEnd(ww, i, seg_start) ==
    IF i = 1 THEN Max(0, ww[1].start - seg_start)
    ELSE Max(0, ww[i].start - ww[i - 1].end)

\* delay_seconds of word i (1-based): the time since the segment start for
\* the first word, since the start of the word before it for the others.
DelaySeconds(ww, i, seg_start) ==
    IF i = 1 THEN Max(0, ww[1].start - seg_start)
    ELSE Max(0, ww[i].start - ww[i - 1].start)

\* The mutant of RevealCs: every delay is counted from the segment start.
RevealCsFromSegmentStart(ww, i, seg_start, mincs) ==
    Max(IF i > 1 THEN mincs ELSE 0, RoundHalfEven(Max(0, ww[i].start - seg_start), 100))

\* cs = max(min_cs if i > 0 else 0, int(round(delay_seconds * 100)))
RevealCs(ww, i, seg_start, mincs) ==
    Max(IF i > 1 THEN mincs ELSE 0, RoundHalfEven(DelaySeconds(ww, i, seg_start), 100))

\* "".join(parts)
RECURSIVE Concat(_)
Concat(parts) == IF parts = <<>> THEN <<>> ELSE parts[1] \o Concat(Tail(parts))

build_karaoke_text(ww, mincs, seg_start) ==
    IF ww = <<>> THEN <<>>
    ELSE RStrip(Concat([i \in 1..Len(ww) |->
             <<"{", "\\", "k">> \o Dec(RevealCs(ww, i, seg_start, mincs)) \o <<"}">>
             \o RemoveBraces(ww[i].text) \o <<" ">>]))

\* The style settings build_karaoke_text_capcut reads.  animation_intensity
\* is held in tenths: 10 is 1.0.
StyleConfig(letter_spacing, animation_type, animation_intensity, all_caps) ==
    [letter_spacing |-> letter_spacing, animation_type |-> animation_type,
     animation_intensity |-> animation_intensity, all_caps |-> all_caps]

\* The mutant of WordDurationMs: twice the duration.
WordDurationMsDoubled(w) == 2 * (Max(1000, w.end - w.start) \div 10)

\* int(max(0.1, w.end - w.start) * 1000), in exact arithmetic.
WordDurationMs(w) == Max(1000, w.end - w.start) \div 10

\* f"\\t({a},{b},{tags})"
Transform(a, b, tags) == <<"\\", "t", "(">> \o Dec(a) \o <<",">> \o Dec(b) \o <<",">> \o tags \o <<")">>

\* f"\\fscx{s}\\fscy{s}"
ScaleTags(s) == <<"\\", "f", "s", "c", "x">> \o Dec(s) \o <<"\\", "f", "s", "c", "y">> \o Dec(s)

\* f"{0.1 * intensity}" and f"{2.0 * intensity}" for the intensities 0.5 and 1.0.
ShearText(intensity) == IF intensity = 10 THEN <<"0", ".", "1">> ELSE <<"0", ".", "0", "5">>
BlurText(intensity) == IF intensity = 10 THEN <<"2", ".", "0">> ELSE <<"1", ".", "0">>

\* The tags that follow \k in the override block, by animation type.
AnimationTags(style, word_duration_ms) ==
    LET intensity == style.animation_intensity
        kind == style.animation_type
    IN  IF kind = "pop" THEN
            LET anim_dur == Min(150, word_duration_ms \div 2)
            IN  Transform(0, anim_dur, ScaleTags(100 + intensity))
                \o Transform(anim_dur, anim_dur * 2, ScaleTags(100))
        ELSE IF kind = "bounce" THEN
            LET anim_dur == Min(200, word_duration_ms \div 2)
            IN  Transform(0, anim_dur, ScaleTags(100 + 2 * intensity))
                \o Transform(anim_dur, anim_dur * 2, ScaleTags(100))
        ELSE IF kind = "scale_in" THEN
            Transform(0, Min(300, word_duration_ms), ScaleTags(100))
        ELSE IF kind = "shake" THEN
            LET anim_dur == Min(100, word_duration_ms \div 3)
            IN  Transform(0, anim_dur, <<"\\", "f", "a", "x">> \o ShearText(intensity))
                \o Transform(anim_dur, anim_dur * 2, <<"\\", "f", "a", "x", "-">> \o ShearText(intensity))
                \o Transform(anim_dur * 2, anim_dur * 3, <<"\\", "f", "a", "x", "0">>)
        ELSE IF kind = "glow" THEN
            Transform(0, Min(250, word_duration_ms), <<"\\", "b", "l", "u", "r">> \o BlurText(intensity))
            \o Transform(Min(250, word_duration_ms), word_duration_ms, <<"\\", "b", "l", "u", "r", "0">>)
        ELSE <<>>

\* The tags put before \k: the initial scale of scale_in, then the letter spacing.
LeadingTags(style) ==
    (IF style.animation_type = "scale_in"
     THEN ScaleTags(Max(0, 100 - 8 * style.animation_intensity)) ELSE <<>>)
    \o (IF style.letter_spacing # 0 THEN <<"\\", "f", "s", "p">> \o Dec(style.letter_spacing) ELSE <<>>)

\* The part of one word: its override block, its text and a space.
CapcutPart(ww, i, seg_start, style, mincs) ==
    LET safe == RemoveBraces(ww[i].text)
        shown == IF style.all_caps THEN Upper(safe) ELSE safe
    IN  <<"{">> \o LeadingTags(style)
        \o <<"\\", "k">> \o Dec(RevealCs(ww, i, seg_start, mincs))
        \o AnimationTags(style, WordDurationMs(ww[i]))
        \o <<"}">> \o shown \o <<" ">>

build_karaoke_text_capcut(ww, seg_start, style, mincs) ==
    IF ww = <<>> THEN <<>>
    ELSE RStrip(Concat([i \in 1..Len(ww) |-> CapcutPart(ww, i, seg_start, style, mincs)]))

(***************************************************************************)
(* One call of build_karaoke_text or of build_karaoke_text_capcut on the   *)
(* words of a segment.  Word starts are tenths of a millisecond: 50 is     *)
(* half a centisecond, 5000 is 0.5 s, 12000 is 1.2 s.  A word lasts 60.5   *)
(* or 400.5 ms, away from the whole milliseconds at which the float        *)
(* product of WordDurationMs can fall short by one.  min_cs keeps its      *)
(* default, which no caller overrides.                                     *)
(***************************************************************************)
MaxKaraokeWords == 3

DefaultMinCs == 1

KaraokeStarts == {0, 50, 150, 5000, 12000}

KaraokeWords ==
    {Word(st, st + 605, <<"a">>) : st \in KaraokeStarts}
    \cup {Word(st, st + 4005, <<"{", "b", "}">>) : st \in KaraokeStarts}
    \cup {Word(st, st + 4005, <<"{", "}">>) : st \in {0, 5000}}

KaraokeStyles ==
    {StyleConfig(0, "none", 10, FALSE),
     StyleConfig(2, "pop", 10, TRUE),
     StyleConfig(0, "bounce", 5, TRUE),
     StyleConfig(0, "scale_in", 10, FALSE),
     StyleConfig(1, "shake", 10, FALSE),
     StyleConfig(0, "glow", 5, FALSE),
     StyleConfig(0, "color_switch", 10, TRUE)}

InitKaraokeText ==
    /\ phase = "input"
    /\ seg_words \in SeqsUpTo(KaraokeWords, MaxKaraokeWords)
    /\ segment_start \in {0, 50}
    /\ min_cs = DefaultMinCs
    /\ style_config \in KaraokeStyles
    /\ markup = <<>>
    /\ style_data = <<>>
    /\ NoWrapCall
    /\ NoPolishCall
    /\ NoKaraokeCall
    /\ NoSrtCall
    /\ NoPresetCall
    /\ NoTestCall
    /\ NoCalcCall
    /\ NoBatchCall
    /\ NoMergeCall
    /\ NoWhisperCall
    /\ NoRunsCall
    /\ NoWatchCall
    /\ NoGuiCall

CallBuildKaraokeText ==
    /\ phase = "input"
    /\ phase' = "build_karaoke_text"
    /\ markup' = build_karaoke_text(seg_words, min_cs, segment_start)
    /\ UNCHANGED <<seg_words, segment_start, min_cs, style_config, style_data,
                   wrapVars, polishVars, karaokeVars, srtVars, presetVars, testVars, calcVars, batchVars, mergeVars, whisperVars, runsVars, watchVars, guiVars>>

CallBuildKaraokeTextCapcut ==
    /\ phase = "input"
    /\ phase' = "build_karaoke_text_capcut"
    /\ markup' = build_karaoke_text_capcut(seg_words, segment_start, style_config, min_cs)
    /\ UNCHANGED <<seg_words, segment_start, min_cs, style_config, style_data,
                   wrapVars, polishVars, karaokeVars, srtVars, presetVars, testVars, calcVars, batchVars, mergeVars, whisperVars, runsVars, watchVars, guiVars>>

NextKaraokeText == CallBuildKaraokeText \/ CallBuildKaraokeTextCapcut

SpecKaraokeText == InitKaraokeText /\ [][NextKaraokeText]_vars

\* The positions of the \k directives of a markup string.
RevealPositions(s) == {i \in 1..Len(s) - 1 : s[i] = "\\" /\ s[i + 1] = "k"}

\* The number written in decimal digits at position i of s.
NumberAt(s, i) ==
    LET stop == CHOOSE j \in i..Len(s) + 1 :
                    /\ j = Len(s) + 1 \/ s[j] \notin {Digits[d] : d \in 1..10}
                    /\ \A h \in i..j - 1 : s[h] \in {Digits[d] : d \in 1..10}
    IN  ParseInt(SubSeq(s, i, stop - 1))

\* The values of the \k directives of a markup string, in order.
RevealValues(s) ==
    LET at == RevealPositions(s)
    IN  [n \in 1..Cardinality(at) |->
            NumberAt(s, 2 + CHOOSE p \in at : Cardinality({q \in at : q < p}) = n - 1)]

\* C7: in the markup of build_karaoke_text and of build_karaoke_text_capcut
\* the reveal value of the first word is round(100 * (start - segment_start))
\* clamped at 0 from below, and the reveal value of every later word is
\* max(1, round(100 * (start - start of the word before))).
C7_RevealValues ==
    phase \in {"build_karaoke_text", "build_karaoke_text_capcut"} =>
        RevealValues(markup) =
            [i \in 1..Len(seg_words) |->
                IF i = 1
                THEN Max(0, RoundHalfEven(seg_words[1].start - segment_start, 100))
                ELSE Max(1, RoundHalfEven(seg_words[i].start - seg_words[i - 1].start, 100))]

\* Words starting at 0.0, 0.5 and 1.2 s in a segment starting at 0.0 have
\* been compiled by build_karaoke_text_capcut to the reveal values 0, 50, 70.
C7_Witness ==
    /\ phase = "build_karaoke_text_capcut"
    /\ segment_start = 0
    /\ Len(seg_words) = 3
    /\ <<seg_words[1].start, seg_words[2].start, seg_words[3].start>> = <<0, 5000, 12000>>
    /\ RevealValues(markup) = <<0, 50, 70>>

\* The sum of the first n reveal values.
RECURSIVE RevealSum(_, _)
RevealSum(vals, n) == IF n = 0 THEN 0 ELSE RevealSum(vals, n - 1) + vals[n]

\* The segment start and every word start fall on whole centiseconds.
OnWholeCs == segment_start % 100 = 0 /\ \A i \in 1..Len(seg_words) : seg_words[i].start % 100 = 0

\* The reveal values up to each word add up to the offset of the word's
\* start from the segment start, in centiseconds.
CumulativeSchedule ==
    \A n \in 1..Len(seg_words) :
        RevealSum(RevealValues(markup), n) = (seg_words[n].start - segment_start) \div 100

\* C25 as stated: when the word starts are non-decreasing, not before the
\* segment start and on whole centiseconds, the reveal values of words 0..N
\* add up to the offset of word N's start from the segment start.
C25_CumulativeSchedule ==
    (/\ phase \in {"build_karaoke_text", "build_karaoke_text_capcut"}
     /\ OnWholeCs
     /\ \A i \in 1..Len(seg_words) : seg_words[i].start >= segment_start
     /\ \A i \in 1..Len(seg_words) - 1 : seg_words[i].start <= seg_words[i + 1].start)
        => CumulativeSchedule

\* C25 amended: the same for word starts that are strictly increasing; two
\* words with the same start are min_cs apart in the schedule.
C25_CumulativeWhenIncreasing ==
    (/\ phase \in {"build_karaoke_text", "build_karaoke_text_capcut"}
     /\ OnWholeCs
     /\ \A i \in 1..Len(seg_words) : seg_words[i].start >= segment_start
     /\ \A i \in 1..Len(seg_words) - 1 : seg_words[i].start < seg_words[i + 1].start)
        => CumulativeSchedule

\* Three words with increasing starts compiled by build_karaoke_text: the
\* reveal values add up to 0, 50 and 120 centiseconds.
C25_Witness ==
    /\ phase = "build_karaoke_text"
    /\ segment_start = 0
    /\ Len(seg_words) = 3
    /\ <<seg_words[1].start, seg_words[2].start, seg_words[3].start>> = <<0, 5000, 12000>>
    /\ \A n \in 1..3 : RevealSum(RevealValues(markup), n) = seg_words[n].start \div 100

(***************************************************************************)
(* One call of build_karaoke_text_capcut on words of 60.5, 250.5 and       *)
(* 400.5 ms, with every animation type.                                    *)
(***************************************************************************)
MaxAnimWords == 2

AnimWords ==
    {Word(0, 605, <<"a">>), Word(5000, 9005, <<"b">>), Word(12000, 14505, <<"a">>)}

InitAnimation ==
    /\ phase = "input"
    /\ seg_words \in SeqsUpTo(AnimWords, MaxAnimWords)
    /\ segment_start = 0
    /\ min_cs = DefaultMinCs
    /\ style_config \in KaraokeStyles
    /\ markup = <<>>
    /\ style_data = <<>>
    /\ NoWrapCall
    /\ NoPolishCall
    /\ NoKaraokeCall
    /\ NoSrtCall
    /\ NoPresetCall
    /\ NoTestCall
    /\ NoCalcCall
    /\ NoBatchCall
    /\ NoMergeCall
    /\ NoWhisperCall
    /\ NoRunsCall
    /\ NoWatchCall
    /\ NoGuiCall

NextAnimation == CallBuildKaraokeTextCapcut

SpecAnimation == InitAnimation /\ [][NextAnimation]_vars

\* The positions of the \t( transforms of an override block.
TransformPositions(s) ==
    {i \in 1..Len(s) - 2 : s[i] = "\\" /\ s[i + 1] = "t" /\ s[i + 2] = "("}

\* The window <<start, end>> of the transform at position p: the two numbers
\* that follow "\t(".
WindowAt(s, p) ==
    LET comma == CHOOSE j \in p + 3..Len(s) : s[j] = "," /\ \A h \in p + 3..j - 1 : s[h] # ","
    IN  <<NumberAt(s, p + 3), NumberAt(s, comma + 1)>>

\* The windows of the transforms of an override block, in order.
Windows(s) ==
    LET at == TransformPositions(s)
    IN  [n \in 1..Cardinality(at) |->
            WindowAt(s, CHOOSE p \in at : Cardinality({q \in at : q < p}) = n - 1)]

\* The animated kinds.
AnimatedKinds == {"pop", "bounce", "scale_in", "shake", "glow"}

\* The cap of one phase of an animation, in ms.
PhaseCap(kind) ==
    IF kind = "pop" THEN 150 ELSE IF kind = "bounce" THEN 200
    ELSE IF kind = "scale_in" THEN 300 ELSE IF kind = "shake" THEN 100 ELSE 250

\* The windows of every word: those of the override block of the word.
WordWindows ==
    LET blocks == Blocks(markup) IN [i \in 1..Len(blocks) |-> Windows(blocks[i])]

\* The windows ws of a word are well formed: at least one window, each with
\* start <= end, each starting where the one before ended, and every phase
\* (for glow the ramp-up, which is the first window) within the cap.
WindowsWellFormed(ws) ==
    LET kind == style_config.animation_type
    IN  /\ Len(ws) >= 1
        /\ \A j \in 1..Len(ws) : ws[j][1] <= ws[j][2]
        /\ \A j \in 1..Len(ws) - 1 : ws[j][2] = ws[j + 1][1]
        /\ \A j \in 1..Len(ws) :
               (kind # "glow" \/ j = 1) => ws[j][2] - ws[j][1] <= PhaseCap(kind)

\* The end of the last of the windows ws, in tenths of a millisecond.
LastWindowEnd(ws) == 10 * ws[Len(ws)][2]

\* C26 as stated: for every animated kind and every word the windows are
\* well formed and the last one ends no later than word.end - word.start.
C26_WindowsWithinWord ==
    (phase = "build_karaoke_text_capcut" /\ style_config.animation_type \in AnimatedKinds) =>
        LET windows == WordWindows IN
        /\ Len(windows) = Len(seg_words)
        /\ \A i \in 1..Len(seg_words) :
            /\ WindowsWellFormed(windows[i])
            /\ LastWindowEnd(windows[i]) <= seg_words[i].end - seg_words[i].start

\* C26 amended: the last window ends no later than the word's duration
\* raised to 100 ms, which is the duration the animations are computed from.
C26_WindowsWithinFlooredDuration ==
    (phase = "build_karaoke_text_capcut" /\ style_config.animation_type \in AnimatedKinds) =>
        LET windows == WordWindows IN
        /\ Len(windows) = Len(seg_words)
        /\ \A i \in 1..Len(seg_words) :
            /\ WindowsWellFormed(windows[i])
            /\ LastWindowEnd(windows[i]) <= Max(1000, seg_words[i].end - seg_words[i].start)

\* A glow on a word of 400.5 ms: the ramp-up window is capped at 250 ms and
\* the second window runs from there to the word's 400 ms.
C26_Witness ==
    /\ phase = "build_karaoke_text_capcut"
    /\ style_config.animation_type = "glow"
    /\ Len(seg_words) >= 2
    /\ seg_words[2].end - seg_words[2].start = 4005
    /\ Windows(Blocks(markup)[2]) = <<(<<0, 250>>), (<<250, 400>>)>>

(***************************************************************************)
(* parse_srt and write_srt.  A file is the string of its characters.       *)
(***************************************************************************)
\* sub in s
Contains(s, sub) ==
    \E i \in 1..Len(s) - Len(sub) + 1 : SubSeq(s, i, i + Len(sub) - 1) = sub

\* s.split(sub, 1) for a string that contains sub.
SplitOnce(s, sub) ==
    LET p == CHOOSE i \in 1..Len(s) - Len(sub) + 1 :
                 /\ SubSeq(s, i, i + Len(sub) - 1) = sub
                 /\ \A h \in 1..i - 1 : SubSeq(s, h, h + Len(sub) - 1) # sub
    IN  <<SubSeq(s, 1, p - 1), SubSeq(s, p + Len(sub), Len(s))>>

\* ln.rstrip("\r")
RECURSIVE RStripCR(_)
RStripCR(s) ==
    IF s # <<>> /\ s[Len(s)] = "\r" THEN RStripCR(SubSeq(s, 1, Len(s) - 1)) ELSE s

\* int(s) succeeds: s is a string of decimal digits.
IsInt(s) == s # <<>> /\ \A i \in 1..Len(s) : s[i] \in {Digits[d] : d \in 1..10}

\* The arrow of a time line.
Arrow == <<"-", "-", ">">>

\* The loop over the blocks: out is the list built so far.
RECURSIVE ParseBlocks(_, _, _)
ParseBlocks(blocks, i, out) ==
    IF i > Len(blocks) THEN out
    ELSE LET lines == [k \in 1..Len(SplitLines(blocks[i])) |->
                          RStripCR(SplitLines(blocks[i])[k])]
         IN  IF Len(lines) < 3 THEN ParseBlocks(blocks, i + 1, out)
             ELSE IF ~Contains(lines[2], Arrow) THEN ParseBlocks(blocks, i + 1, out)
             ELSE LET idx == IF IsInt(Strip(lines[1])) THEN ParseInt(Strip(lines[1]))
                             ELSE Len(out) + 1
                      times == SplitOnce(lines[2], Arrow)
                      txt == Strip(Join(SubSeq(lines, 3, Len(lines)), <<"\n">>))
                  IN  ParseBlocks(blocks, i + 1,
                          Append(out, SrtSegment(idx, Strip(times[1]), Strip(times[2]), txt)))

parse_srt(file) ==
    LET content == Strip(file)
        pieces == SplitOnSeq(content, <<"\n", "\n">>)
        stripped == [k \in 1..Len(pieces) |-> Strip(pieces[k])]
        blocks == SelectSeq(stripped, LAMBDA b : b # <<>>)
    IN  IF content = <<>> THEN <<>> ELSE ParseBlocks(blocks, 1, <<>>)

\* The four parts write_srt appends for segment i.
SrtParts(segs, i) ==
    <<Dec(i), segs[i].start \o <<" ">> \o Arrow \o <<" ">> \o segs[i].end,
      Strip(segs[i].text), <<>>>>

RECURSIVE AllSrtParts(_, _)
AllSrtParts(segs, i) ==
    IF i > Len(segs) THEN <<>> ELSE SrtParts(segs, i) \o AllSrtParts(segs, i + 1)

write_srt(segs) == RStrip(Join(AllSrtParts(segs, 1), <<"\n">>)) \o <<"\n">>

(***************************************************************************)
(* apply_glossary.  The mapping is the sequence of its (src, dst) pairs in *)
(* the order the dictionary holds them.                                    *)
(***************************************************************************)
\* text.replace(src, dst) for a non-empty src.
RECURSIVE ReplaceFrom(_, _, _, _)
ReplaceFrom(s, src, dst, i) ==
    IF i > Len(s) THEN <<>>
    ELSE IF i + Len(src) - 1 <= Len(s) /\ SubSeq(s, i, i + Len(src) - 1) = src
         THEN dst \o ReplaceFrom(s, src, dst, i + Len(src))
         ELSE <<s[i]>> \o ReplaceFrom(s, src, dst, i + 1)

Replace(s, src, dst) == ReplaceFrom(s, src, dst, 1)

RECURSIVE apply_glossary(_, _)
apply_glossary(txt, mapping) ==
    IF mapping = <<>> THEN txt
    ELSE apply_glossary(Replace(txt, mapping[1][1], mapping[1][2]), Tail(mapping))

(***************************************************************************)
(* The subtitle steps of transcribe_one_whispercpp for a file that is not  *)
(* chunked: the SRT file of whisper.cpp is parsed, the glossary is         *)
(* applied, the segments are polished when asked, renumbered and written.  *)
(* PII redaction is off.                                                   *)
(***************************************************************************)
\* The defaults of --max-chars-per-line, --max-lines, --max-cps, --min-dur-ms,
\* --max-dur-ms and --merge-gap-ms.
PolishDefaults ==
    [max_chars_per_line |-> 42, max_lines |-> 2, max_cps |-> 17,
     min_dur_ms |-> 700, max_dur_ms |-> 7000, merge_gap_ms |-> 200]

\* The segments with the glossary applied to their text.
WithGlossary(segs, mapping) ==
    [k \in 1..Len(segs) |-> [segs[k] EXCEPT !.text = apply_glossary(@, mapping)]]

\* for i, s in enumerate(all_segments, 1): s.idx = i
Renumbered(segs) == [k \in 1..Len(segs) |-> [segs[k] EXCEPT !.idx = k]]

\* all_segments as transcribe_one_whispercpp writes them.
TranscribedSegments(file, mapping, do_polish) ==
    LET parsed == parse_srt(file)
        replaced == IF mapping # <<>> THEN WithGlossary(parsed, mapping) ELSE parsed
        result == IF do_polish THEN polish_segments(replaced, PolishDefaults) ELSE replaced
    IN  Renumbered(result)

MaxSrtBlocks == 2

\* f"{start} --> {end}" for times in milliseconds.
SrtTimeLine(st, en) == ms_to_srt_time(st) \o <<" ">> \o Arrow \o <<" ">> \o ms_to_srt_time(en)

SrtTexts == {<<"a">>, <<"u", "m">>, <<"a", "\n", "u", "m">>, <<"u", "m", " ", "b">>}

\* The blocks of the file: an index line, a time line and the text; the
\* index may be no number, and a block may lack its text, the arrow of its
\* time line or its index line.
SrtBlocks ==
    {Join(<<<<"1">>, SrtTimeLine(0, 1000), txt>>, <<"\n">>) : txt \in SrtTexts}
    \cup {Join(<<<<"x">>, SrtTimeLine(1100, 3500), <<"a">>>>, <<"\n">>),
          Join(<<<<"1">>, SrtTimeLine(1100, 3500)>>, <<"\n">>),
          Join(<<<<"1">>, ms_to_srt_time(0), <<"a">>>>, <<"\n">>),
          Join(<<SrtTimeLine(0, 1000), <<"a">>, <<"b">>>>, <<"\n">>)}

SrtFiles ==
    {Join(bs, <<"\n", "\n">>) \o <<"\n">> : bs \in SeqsUpTo(SrtBlocks, MaxSrtBlocks)}

\* The glossaries: none, one that deletes a filler word, one that replaces
\* it, one whose second entry undoes the first.
Glossaries ==
    {<<>>,
     <<<<(<<"u", "m">>), <<>>>>>>,
     <<<<(<<"u", "m">>), <<"h", "m">>>>>>,
     <<<<(<<"a">>), <<"b">>>>, <<(<<"b">>), <<"a">>>>>>}

InitSrt ==
    /\ phase = "input"
    /\ srt_file \in SrtFiles
    /\ glossary_map \in Glossaries
    /\ polish \in BOOLEAN
    /\ all_segments = <<>>
    /\ out_srt = <<>>
    /\ reparsed = <<>>
    /\ rewritten = <<>>
    /\ NoWrapCall
    /\ NoPolishCall
    /\ NoKaraokeCall
    /\ NoMarkupCall
    /\ NoPresetCall
    /\ NoTestCall
    /\ NoCalcCall
    /\ NoBatchCall
    /\ NoMergeCall
    /\ NoWhisperCall
    /\ NoRunsCall
    /\ NoWatchCall
    /\ NoGuiCall

\* transcribe_one_whispercpp, from parse_srt to write_srt.
TranscribeOne ==
    /\ phase = "input"
    /\ phase' = "write_srt"
    /\ all_segments' = TranscribedSegments(srt_file, glossary_map, polish)
    /\ out_srt' = write_srt(all_segments')
    /\ UNCHANGED <<srt_file, glossary_map, polish, reparsed, rewritten,
                   wrapVars, polishVars, karaokeVars, markupVars, presetVars, testVars, calcVars, batchVars, mergeVars, whisperVars, runsVars, watchVars, guiVars>>

\* The written file is parsed and the parsed segments are written again.
ReadBack ==
    /\ phase = "write_srt"
    /\ phase' = "round_trip"
    /\ reparsed' = parse_srt(out_srt)
    /\ rewritten' = write_srt(reparsed')
    /\ UNCHANGED <<srt_file, glossary_map, polish, all_segments, out_srt,
                   wrapVars, polishVars, karaokeVars, markupVars, presetVars, testVars, calcVars, batchVars, mergeVars, whisperVars, runsVars, watchVars, guiVars>>

NextSrt == TranscribeOne \/ ReadBack

SpecSrt == InitSrt /\ [][NextSrt]_vars

\* C6: the file transcribe_one_whispercpp wrote, parsed with parse_srt and written again
\* with write_srt, is the same file byte for byte.
C6_RoundTripIdentical ==
    phase = "round_trip" => rewritten = out_srt

\* C11: build_karaoke_text_capcut emits no reveal directive followed by empty
\* visible text: in its markup every override block {...} is followed by at
\* least one character of the word it belongs to.
C11_NoEmptyVisibleText ==
    phase = "build_karaoke_text_capcut" =>
        \A i \in 1..Len(markup) :
            markup[i] = "}" => (i < Len(markup) /\ markup[i + 1] # " ")


(***************************************************************************)
(* CapcutStyleConfig.from_dict.  data is a record of the keys the model    *)
(* follows; a key the dictionary lacks holds None.  The result keeps the   *)
(* fields build_karaoke_text_capcut reads.                                 *)
(***************************************************************************)
\* The values of the enumerations AnimationType and BackgroundStyle.
AnimationTypeValues ==
    {"none", "pop", "bounce", "scale_in", "shake", "glow", "color_switch", "typewriter"}
BackgroundStyleValues == {"none", "box", "rounded", "glass", "highlight"}

\* data.get(key, default)
GetOr(x, default) == IF x = None THEN default ELSE x[1]

\* What from_dict leaves in place of a style when it raised ValueError.
ValueError == [raised |-> "ValueError"]

\* AnimationType(value) and BackgroundStyle(value) raise ValueError for a
\* value that is not one of the enumeration.
from_dict(data) ==
    IF GetOr(data.background_style, "none") \notin BackgroundStyleValues THEN ValueError
    ELSE IF GetOr(data.animation_type, "color_switch") \notin AnimationTypeValues THEN ValueError
    ELSE StyleConfig(GetOr(data.letter_spacing, 0), GetOr(data.animation_type, "color_switch"),
                     GetOr(data.animation_intensity, 10), GetOr(data.all_caps, TRUE))

(***************************************************************************)
(* A style is built from a dictionary and the markup of a segment's words  *)
(* is compiled with it.                                                    *)
(***************************************************************************)
MaxStyleWords == 2

StyleWords == {Word(0, 605, <<"a">>), Word(5000, 9005, <<"{", "b", "}">>)}

StyleDicts ==
    [animation_type : {None, Some("wobble")} \cup {Some(k) : k \in AnimationTypeValues},
     background_style : {None, Some("box")},
     letter_spacing : {None, Some(2)},
     animation_intensity : {None, Some(5)},
     all_caps : {None, Some(FALSE)}]

InitStyle ==
    /\ phase = "input"
    /\ style_data \in StyleDicts
    /\ seg_words \in SeqsUpTo(StyleWords, MaxStyleWords)
    /\ segment_start = 0
    /\ min_cs = DefaultMinCs
    /\ style_config = <<>>
    /\ markup = <<>>
    /\ NoWrapCall
    /\ NoPolishCall
    /\ NoKaraokeCall
    /\ NoSrtCall
    /\ NoPresetCall
    /\ NoTestCall
    /\ NoCalcCall
    /\ NoBatchCall
    /\ NoMergeCall
    /\ NoWhisperCall
    /\ NoRunsCall
    /\ NoWatchCall
    /\ NoGuiCall

FromDict ==
    /\ phase = "input"
    /\ phase' = "from_dict"
    /\ style_config' = from_dict(style_data)
    /\ UNCHANGED <<seg_words, segment_start, min_cs, markup, style_data,
                   wrapVars, polishVars, karaokeVars, srtVars, presetVars, testVars, calcVars, batchVars, mergeVars, whisperVars, runsVars, watchVars, guiVars>>

CompileMarkup ==
    /\ phase = "from_dict"
    /\ style_config # ValueError
    /\ phase' = "build_karaoke_text_capcut"
    /\ markup' = build_karaoke_text_capcut(seg_words, segment_start, style_config, min_cs)
    /\ UNCHANGED <<seg_words, segment_start, min_cs, style_config, style_data,
                   wrapVars, polishVars, karaokeVars, srtVars, presetVars, testVars, calcVars, batchVars, mergeVars, whisperVars, runsVars, watchVars, guiVars>>

NextStyle == FromDict \/ CompileMarkup

SpecStyle == InitStyle /\ [][NextStyle]_vars

\* C12: for an animation kind that is not one of the animated kinds,
\* from_dict raises no error, and the markup compiled with the style holds no
\* \t directive.
C12_OtherKindsAreNone ==
    GetOr(style_data.animation_type, "color_switch") \notin AnimatedKinds =>
        /\ phase = "from_dict" => style_config # ValueError
        /\ phase = "build_karaoke_text_capcut" =>
               ~Contains(markup, <<"\\", "t">>)


(***************************************************************************)
(* One call of parse_srt on the SRT file of whisper.cpp.                   *)
(***************************************************************************)
InitParse ==
    /\ phase = "input"
    /\ srt_file \in SrtFiles
    /\ glossary_map = <<>> /\ polish = FALSE /\ all_segments = <<>>
    /\ out_srt = <<>> /\ reparsed = <<>> /\ rewritten = <<>>
    /\ NoWrapCall
    /\ NoPolishCall
    /\ NoKaraokeCall
    /\ NoMarkupCall
    /\ NoPresetCall
    /\ NoTestCall
    /\ NoCalcCall
    /\ NoBatchCall
    /\ NoMergeCall
    /\ NoWhisperCall
    /\ NoRunsCall
    /\ NoWatchCall
    /\ NoGuiCall

\* all_segments = parse_srt(srt)
CallParseSrt ==
    /\ phase = "input"
    /\ phase' = "parse_srt"
    /\ all_segments' = parse_srt(srt_file)
    /\ UNCHANGED <<srt_file, glossary_map, polish, out_srt, reparsed, rewritten,
                   wrapVars, polishVars, karaokeVars, markupVars, presetVars, testVars, calcVars, batchVars, mergeVars, whisperVars, runsVars, watchVars, guiVars>>

NextParse == CallParseSrt

SpecParse == InitParse /\ [][NextParse]_vars

\* The blocks of a file: its parts between blank lines.
BlocksOf(file) == SplitOnSeq(Strip(file), <<"\n", "\n">>)

\* A block lacks its index line when its first line is the time line.
IndexMissing(block) == Contains(SplitOn(block, "\n")[1], Arrow)

\* A block is malformed when it has fewer than 3 lines or no arrow on its
\* time line.
Malformed(block) ==
    LET lines == SplitOn(block, "\n")
    IN  \/ Len(lines) < 3
        \/ ~IndexMissing(block) /\ ~Contains(lines[2], Arrow)

\* What is to be returned for the blocks from i on, count blocks being
\* accepted already.
RECURSIVE ExpectedFrom(_, _, _)
ExpectedFrom(blocks, i, count) ==
    IF i > Len(blocks) THEN <<>>
    ELSE IF Malformed(blocks[i]) THEN ExpectedFrom(blocks, i + 1, count)
    ELSE LET lines == SplitOn(blocks[i], "\n")
             first == IF IndexMissing(blocks[i]) THEN 1 ELSE 2
             idx == IF ~IndexMissing(blocks[i]) /\ IsInt(lines[1])
                    THEN ParseInt(lines[1]) ELSE count + 1
             times == SplitOnce(lines[first], Arrow)
         IN  <<SrtSegment(idx, Strip(times[1]), Strip(times[2]),
                          Join(SubSeq(lines, first + 1, Len(lines)), <<"\n">>))>>
             \o ExpectedFrom(blocks, i + 1, count + 1)

\* C13: parse_srt skips the malformed blocks and returns all other blocks in
\* order; a block whose index line is missing or no integer is kept with the
\* running counter (blocks accepted so far + 1) as its index.
C13_MalformedBlocksSkipped ==
    phase = "parse_srt" => all_segments = ExpectedFrom(BlocksOf(srt_file), 1, 0)

(***************************************************************************)
(* main: the CapCut preset, its overrides and its line limit.              *)
(*                                                                         *)
(* A CapcutStyleConfig object is a record of the three fields main reads   *)
(* and assigns.  all_presets maps each preset name to the object that      *)
(* get_all_presets built for it, and style_config of main is a reference   *)
(* to one of these objects: style_ref holds the name of the object, and an *)
(* assignment to a field of style_config is an assignment to that object.  *)
(***************************************************************************)
Preset(font_size, all_caps, max_chars_per_line) ==
    [font_size |-> font_size, all_caps |-> all_caps,
     max_chars_per_line |-> max_chars_per_line]

viral_karaoke == Preset(46, TRUE, 34)
viral_flat == Preset(46, TRUE, 34)
clean_premium == Preset(40, FALSE, 36)
tutorial_tech == Preset(44, TRUE, 36)
storytime_fofoca == Preset(44, FALSE, 32)
motivacional == Preset(48, TRUE, 36)
terror_true_crime == Preset(44, TRUE, 32)

get_preset_names ==
    {"viral_karaoke", "viral_flat", "clean_premium", "tutorial_tech",
     "storytime_fofoca", "motivacional", "terror_true_crime"}

get_all_presets ==
    [name \in get_preset_names |->
        CASE name = "viral_karaoke" -> viral_karaoke
          [] name = "viral_flat" -> viral_flat
          [] name = "clean_premium" -> clean_premium
          [] name = "tutorial_tech" -> tutorial_tech
          [] name = "storytime_fofoca" -> storytime_fofoca
          [] name = "motivacional" -> motivacional
          [] name = "terror_true_crime" -> terror_true_crime]

\* if args.capcut_font_size: an absent option and a size of 0 are both falsy.
FontOverride(a) == a.capcut_font_size # None /\ a.capcut_font_size[1] # 0

\* The fields of the object after the two overrides (lines 1815-1820).
Overridden(style, a) ==
    LET sized == IF FontOverride(a)
                 THEN [style EXCEPT !.font_size = a.capcut_font_size[1]]
                 ELSE style
    IN  CASE a.capcut_uppercase = "on" -> [sized EXCEPT !.all_caps = TRUE]
          [] a.capcut_uppercase = "off" -> [sized EXCEPT !.all_caps = FALSE]
          [] OTHER -> sized

\* max(10, int(round(base_max_chars * scale_w * scale_font))) with
\* scale_w = max(0.5, width / 1920.0) and scale_font = base_font_size /
\* font_size (1.0 for a font size of 0), as a quotient of integers.  On the
\* widths and sizes of this model the float product rounds as the exact one.
ScaledMaxChars(base_max_chars, base_font_size, font_size, width) ==
    LET wide == 2 * width >= 1920
        wnum == IF wide THEN width ELSE 1
        wden == IF wide THEN 1920 ELSE 2
        fnum == IF font_size # 0 THEN base_font_size ELSE 1
        fden == IF font_size # 0 THEN font_size ELSE 1
    IN  Max(10, RoundHalfEven(base_max_chars * wnum * fnum, wden * fden))

\* The object after lines 1812-1826; res is always a pair, hence truthy.
Adapted(style, a, canvas) ==
    LET over == Overridden(style, a)
    IN  IF style.max_chars_per_line # 0
        THEN [over EXCEPT !.max_chars_per_line =
                 ScaledMaxChars(style.max_chars_per_line, style.font_size,
                                over.font_size, canvas[1])]
        ELSE over

\* --capcut-style, --capcut-font-size, --capcut-uppercase and --res.
FontSizes == {None, Some(0), Some(30), Some(52), Some(92)}
Canvases ==
    {<<640, 360>>, <<960, 540>>, <<1080, 1920>>, <<1280, 720>>, <<1920, 1080>>,
     <<3840, 2160>>}
Args ==
    [capcut_style : {None} \cup {Some(n) : n \in get_preset_names},
     capcut_font_size : FontSizes,
     capcut_uppercase : {"auto", "on", "off"}]

InitPreset ==
    /\ phase = "input"
    /\ args \in Args
    /\ res \in Canvases
    /\ all_presets = <<>>
    /\ style_ref = None
    /\ NoWrapCall
    /\ NoPolishCall
    /\ NoKaraokeCall
    /\ NoMarkupCall
    /\ NoSrtCall
    /\ NoTestCall
    /\ NoCalcCall
    /\ NoBatchCall
    /\ NoMergeCall
    /\ NoWhisperCall
    /\ NoRunsCall
    /\ NoWatchCall
    /\ NoGuiCall

\* Lines 1802-1809: style_config = all_presets[args.capcut_style].
SelectPreset ==
    /\ phase = "input"
    /\ phase' = "preset"
    /\ IF args.capcut_style # None
       THEN /\ all_presets' = get_all_presets
            /\ style_ref' = args.capcut_style
       ELSE UNCHANGED <<all_presets, style_ref, testVars, calcVars, batchVars, mergeVars, whisperVars, runsVars, watchVars, guiVars>>
    /\ UNCHANGED <<args, res, wrapVars, polishVars, karaokeVars, markupVars, srtVars, testVars, calcVars, batchVars, mergeVars, whisperVars, runsVars, watchVars, guiVars>>

\* Lines 1812-1826: the overrides assign to the fields of style_config.
ApplyOverrides ==
    /\ phase = "preset"
    /\ phase' = "overrides"
    /\ IF style_ref # None
       THEN all_presets' =
                [all_presets EXCEPT ![style_ref[1]] = Adapted(@, args, res)]
       ELSE UNCHANGED all_presets
    /\ UNCHANGED <<args, res, style_ref, wrapVars, polishVars, karaokeVars, markupVars,
                   srtVars, testVars, calcVars, batchVars, mergeVars, whisperVars, runsVars, watchVars, guiVars>>

NextPreset == SelectPreset \/ ApplyOverrides

SpecPreset == InitPreset /\ [][NextPreset]_vars

\* An override is applied: a font size is given or the case is forced.
OverrideApplied == FontOverride(args) \/ args.capcut_uppercase # "auto"

\* C14: with a forced case or a font-size override the line limit of the
\* preset becomes max(10, round(base limit * (canvas width / 1920) * (base
\* font size / override font size))), whatever the canvas width and the font
\* size; with neither override the line limit of the preset is unchanged.
C14_RescaledLimit ==
    phase = "overrides" /\ style_ref # None =>
        LET base == get_all_presets[style_ref[1]]
            final == all_presets[style_ref[1]]
        IN  IF OverrideApplied
            THEN final.max_chars_per_line =
                     Max(10, RoundHalfEven(base.max_chars_per_line * res[1] * base.font_size,
                                           1920 * final.font_size))
            ELSE final.max_chars_per_line = base.max_chars_per_line

\* C17: the overrides leave the StyleConfig value they started from alone:
\* the object obtained from the catalog keeps its font_size, all_caps and
\* max_chars_per_line.
C17_CatalogValueKept ==
    phase = "overrides" /\ style_ref # None =>
        all_presets[style_ref[1]] = get_all_presets[style_ref[1]]

(***************************************************************************)
(* test_quebra_inteligente.py: the test of the word-based splitter.        *)
(*                                                                         *)
(* The test imports Word, smart_split_by_words_and_timing and              *)
(* should_split_segment from transcribe_pro_karaoke_docker, builds a timed *)
(* word list and hands it to the two functions.                            *)
(***************************************************************************)
\* The classes, functions and constants transcribe_pro_karaoke_docker.py
\* defines at its top level.
ModuleNames ==
    {"AnimationType", "BackgroundStyle", "CapcutStyleConfig", "CapcutPresets",
     "MEDIA_EXTS", "AUDIO_ONLY_EXTS", "SrtSegment", "srt_time_to_ms", "ms_to_srt_time",
     "parse_srt", "write_srt", "write_vtt", "timestamped_txt", "wrap_text",
     "polish_segments", "PII_EMAIL", "PII_PHONE", "PII_CPF", "PII_CNPJ", "redact_pii",
     "load_glossary", "apply_glossary", "ensure_dir", "ffmpeg_escape_path_for_filter",
     "run_cmd", "sha256_file", "file_sig", "detect_best_audio_stream", "pick_latest",
     "ffmpeg_extract_wav", "ffmpeg_split_wav", "whisper_cli_attempts", "Word",
     "KaraokeSegment", "_safe_float", "load_whisperx_json_words",
     "whisperx_segments_to_srt_segments", "build_karaoke_from_srt_approx", "ass_time",
     "ass_color_bgr_hex", "build_karaoke_text", "build_karaoke_text_capcut",
     "wrap_ass_line", "add_background_box", "write_ass_karaoke", "burn_ass_to_video",
     "run_whisperx_to_json_local", "run_whisperx_to_json_docker", "run_whisperx_sidecar",
     "load_state", "save_state", "options_fingerprint", "is_supported_media",
     "collect_files", "transcribe_one_whispercpp", "main"}

\* from transcribe_pro_karaoke_docker import ... (line 13 of the test).
TestImports == {"Word", "smart_split_by_words_and_timing", "should_split_segment"}

ImportError == [raised |-> "ImportError"]

\* The import statement: it raises when the module lacks one of the names.
ImportFrom(names) == IF names \subseteq ModuleNames THEN None ELSE ImportError

\* The timed words of the test, in milliseconds: each word lasts 0.3 s and
\* the next one starts 0.1 s later, the first at 21.631 s (lines 26-33).
TimedWord(i, word) ==
    [start |-> 21631 + 400 * (i - 1), end |-> 21631 + 400 * (i - 1) + 300, text |-> word]
TimedWords(texts) == [i \in 1..Len(texts) |-> TimedWord(i, texts[i])]

\* Word lists of the test: n times the same word.
MaxTestWords == 24
TestTexts == {<<"a">>, <<"a", "b", "c", "d">>, <<"a", "b", "c", "d", "e", "f", "g", "h", "i">>}
TestWordLists == {[i \in 1..n |-> w] : n \in 1..MaxTestWords, w \in TestTexts}

InitTest ==
    /\ phase = "input"
    /\ palavras \in TestWordLists
    /\ subsegmentos = <<>>
    /\ NoWrapCall
    /\ NoPolishCall
    /\ NoKaraokeCall
    /\ NoMarkupCall
    /\ NoSrtCall
    /\ NoPresetCall
    /\ NoCalcCall
    /\ NoBatchCall
    /\ NoMergeCall
    /\ NoWhisperCall
    /\ NoRunsCall
    /\ NoWatchCall
    /\ NoGuiCall

\* One run of the test file: the import of line 13 comes first, and the body
\* of the test runs only when it does not raise.
RunTest ==
    /\ phase = "input"
    /\ phase' = "test"
    /\ subsegmentos' = ImportFrom(TestImports)
    /\ UNCHANGED <<palavras, wrapVars, polishVars, karaokeVars, markupVars, srtVars,
                   presetVars, calcVars, batchVars, mergeVars, whisperVars, runsVars, watchVars, guiVars>>

NextTest == RunTest

SpecTest == InitTest /\ [][NextTest]_vars

\* sum(len(w.text) for w in words) + len(words) - 1 (lines 41 and 71).
RECURSIVE TextLengths(_)
TextLengths(ww) == IF ww = <<>> THEN 0 ELSE Len(ww[1].text) + TextLengths(Tail(ww))
VisibleChars(ww) == TextLengths(ww) + Len(ww) - 1

\* The word list is over-long for max_words_total = 14 and
\* max_chars_per_segment = 84.
OverLong(ww) == Len(ww) > 14 \/ VisibleChars(ww) > 84

\* C15: the splitter the test exercises, with max_words_total = 14 and
\* max_chars_per_segment = 84, splits an over-long timed word list into at
\* least 2 subsegments of at most 14 words and at most 84 visible characters
\* each, which together hold all the words in order.
C15_SplitWithinLimits ==
    phase = "test" /\ OverLong(TimedWords(palavras)) =>
        /\ subsegmentos # ImportError
        /\ Len(subsegmentos) >= 2
        /\ \A k \in 1..Len(subsegmentos) :
               Len(subsegmentos[k]) <= 14 /\ VisibleChars(subsegmentos[k]) <= 84
        /\ Concat(subsegmentos) = TimedWords(palavras)

(***************************************************************************)
(* test_chars.py: calc_max_chars.                                          *)
(*                                                                         *)
(* The float values are quotients of integers: usable_width is counted in  *)
(* 1/10000 pixel and char_width_estimate in 1/100 pixel.  int() of the     *)
(* quotient truncates toward zero.  Where the exact quotient is a whole    *)
(* number the float division may fall just below it and int() return one   *)
(* less (1000x1000, 50 px, no caps: 14 for 15); the canvases and font      *)
(* sizes below have no such quotient.                                      *)
(***************************************************************************)
\* int(n / d) for d > 0.
Trunc(n, d) == IF n >= 0 THEN n \div d ELSE -((-n) \div d)

\* h > w
IsVertical(a) == a.h > a.w

\* usable_width after the margins and the safety factor, in 1/10000 pixel:
\* (w * 0.60 - 200) * 0.75 or (w * 0.75 - 200) * 0.75.
UsableWidth(a) == (a.w * (IF IsVertical(a) THEN 60 ELSE 75) - 20000) * 75

\* char_width_estimate in 1/100 pixel.
CharWidthEstimate(a) ==
    a.font_size * (IF IsVertical(a) THEN (IF a.is_caps THEN 70 ELSE 58)
                                    ELSE (IF a.is_caps THEN 65 ELSE 55))

\* calculated = int(usable_width / char_width_estimate)
Calculated(a) == Trunc(UsableWidth(a), CharWidthEstimate(a) * 100)

\* max_chars of the table (lines 21-34).
TableMaxChars(a) ==
    IF IsVertical(a)
    THEN IF a.w <= 720 THEN (IF a.font_size >= 50 THEN 12 ELSE 15)
         ELSE IF a.w <= 1080 THEN (IF a.font_size >= 50 THEN 14 ELSE 18)
         ELSE (IF a.font_size >= 50 THEN 18 ELSE 22)
    ELSE IF a.w <= 1280 THEN (IF a.font_size >= 50 THEN 28 ELSE 32)
         ELSE IF a.w <= 1920 THEN (IF a.font_size >= 50 THEN 32 ELSE 38)
         ELSE (IF a.font_size >= 50 THEN 38 ELSE 45)

\* The mutant of Final: the larger of the two.
FinalLarger(calculated, table) == Max(calculated, table)

\* final = min(calculated, max_chars)
Final(calculated, table) == Min(calculated, table)

calc_max_chars(a) ==
    [final |-> Final(Calculated(a), TableMaxChars(a)),
     calculated |-> Calculated(a),
     usable_width |-> UsableWidth(a)]

\* The canvases and font sizes of the calls: those of configs and others.
MaxFontSteps == 15
CalcFontSizes == {30 + 2 * k : k \in 0..MaxFontSteps}
CalcCanvases ==
    {<<1080, 1920>>, <<720, 1280>>, <<1920, 1080>>, <<1280, 720>>, <<3840, 2160>>,
     <<2160, 3840>>, <<320, 480>>, <<480, 320>>, <<240, 320>>, <<1440, 2560>>,
     <<1024, 768>>}

InitCalc ==
    /\ phase = "input"
    /\ calc_args \in {[w |-> c[1], h |-> c[2], font_size |-> fs, is_caps |-> caps] :
                         c \in CalcCanvases, fs \in CalcFontSizes, caps \in BOOLEAN}
    /\ calc_result = <<>>
    /\ NoWrapCall
    /\ NoPolishCall
    /\ NoKaraokeCall
    /\ NoMarkupCall
    /\ NoSrtCall
    /\ NoPresetCall
    /\ NoTestCall
    /\ NoBatchCall
    /\ NoMergeCall
    /\ NoWhisperCall
    /\ NoRunsCall
    /\ NoWatchCall
    /\ NoGuiCall

CallCalcMaxChars ==
    /\ phase = "input"
    /\ phase' = "calc_max_chars"
    /\ calc_result' = calc_max_chars(calc_args)
    /\ UNCHANGED <<calc_args, wrapVars, polishVars, karaokeVars, markupVars, srtVars,
                   presetVars, testVars, batchVars, mergeVars, whisperVars, runsVars, watchVars, guiVars>>

NextCalc == CallCalcMaxChars

SpecCalc == InitCalc /\ [][NextCalc]_vars

\* final <= usable_width / char_width_estimate, the raw geometric estimate.
AtMostRawEstimate ==
    calc_result.final * CharWidthEstimate(calc_args) * 100 <= UsableWidth(calc_args)

\* C16 as stated: the returned value is at most the raw geometric estimate
\* and at most the cap of the table for the canvas class, and for a vertical
\* canvas it lies in [12, 22].
C16_BoundedByEstimateAndTable ==
    phase = "calc_max_chars" =>
        /\ AtMostRawEstimate
        /\ calc_result.final <= TableMaxChars(calc_args)
        /\ IsVertical(calc_args) => calc_result.final \in 12..22

\* C16 amended: the returned value is at most the cap of the table for the
\* canvas class, hence at most 22 on a vertical canvas, and at most the raw
\* geometric estimate truncated toward zero, hence at most the raw estimate
\* whenever the usable width is not negative.
C16_BoundedByTruncatedEstimate ==
    phase = "calc_max_chars" =>
        /\ calc_result.final <= TableMaxChars(calc_args)
        /\ IsVertical(calc_args) => calc_result.final <= 22
        /\ calc_result.final
               <= Trunc(UsableWidth(calc_args), CharWidthEstimate(calc_args) * 100)
        /\ UsableWidth(calc_args) >= 0 => AtMostRawEstimate

\* 1080x1920 with a 52 px font in capitals: the estimate, 9, is below the cap.
C16_Witness ==
    /\ phase = "calc_max_chars"
    /\ calc_args = [w |-> 1080, h |-> 1920, font_size |-> 52, is_caps |-> TRUE]
    /\ calc_result.final = 9
    /\ calc_result.final < TableMaxChars(calc_args)

(***************************************************************************)
(* main: process_batch, should_skip and mark_state.                        *)
(*                                                                         *)
(* One action is one pass of the for loop of process_batch.  An item of    *)
(* the state file holds its status, whether its opt_fp is the one of this  *)
(* run ("this") or of a run with other options ("old"), and whether it was *)
(* written before this run or by it (updated_at).  The size and mtime of   *)
(* an item match the file, and the outputs of an "ok" item exist.          *)
(***************************************************************************)
Item(status, opt_fp, updated_at) ==
    [status |-> status, opt_fp |-> opt_fp, updated_at |-> updated_at]

\* should_skip(p), lines 1897-1909.
should_skip(p) ==
    IF force THEN FALSE
    ELSE IF state[p] = None THEN FALSE
    ELSE IF state[p][1].opt_fp # "this" THEN FALSE
    ELSE state[p][1].status = "ok"

\* file_sig and sha256_file of mark_state stat and open the media file: they
\* raise when the file is gone.
MarkStateRaises(p) == media[p].gone

\* state["items"][key] = {...} of mark_state, lines 1911-1925.
mark_state(p, status) == [state EXCEPT ![p] = Some(Item(status, "this", "now"))]

MaxFiles == 3
FileNames == <<"a.mp4", "b.mp4", "c.mp4", "d.mp4">>
PriorItems ==
    {None, Some(Item("ok", "this", "before")), Some(Item("ok", "old", "before")),
     Some(Item("fail", "this", "before"))}

InitBatch ==
    /\ phase = "loop"
    /\ \E n \in 1..MaxFiles :
        /\ files = SubSeq(FileNames, 1, n)
        /\ media \in [{FileNames[i] : i \in 1..n} -> [transcribes : BOOLEAN, gone : BOOLEAN]]
        /\ state \in [{FileNames[i] : i \in 1..n} -> PriorItems]
    /\ force \in BOOLEAN
    /\ next_file = 1
    /\ ok = 0
    /\ fail = 0
    /\ NoWrapCall
    /\ NoPolishCall
    /\ NoKaraokeCall
    /\ NoMarkupCall
    /\ NoSrtCall
    /\ NoPresetCall
    /\ NoTestCall
    /\ NoCalcCall
    /\ NoMergeCall
    /\ NoWhisperCall
    /\ NoRunsCall
    /\ NoWatchCall
    /\ NoGuiCall

Looping == phase = "loop" /\ next_file <= Len(files)

BatchFrame ==
    UNCHANGED <<files, media, force, wrapVars, polishVars, karaokeVars, markupVars,
                srtVars, presetVars, testVars, calcVars, mergeVars, whisperVars, runsVars, watchVars, guiVars>>

\* if should_skip(f): continue
SkipFile ==
    /\ Looping
    /\ should_skip(files[next_file])
    /\ next_file' = next_file + 1
    /\ UNCHANGED <<phase, state, ok, fail, mergeVars, whisperVars, runsVars, watchVars, guiVars>>
    /\ BatchFrame

\* The try block runs to its end: mark_state(f, "ok", None); ok += 1.
FileOk ==
    /\ Looping
    /\ ~should_skip(files[next_file])
    /\ media[files[next_file]].transcribes
    /\ ~MarkStateRaises(files[next_file])
    /\ state' = mark_state(files[next_file], "ok")
    /\ ok' = ok + 1
    /\ next_file' = next_file + 1
    /\ UNCHANGED <<phase, fail, mergeVars, whisperVars, runsVars, watchVars, guiVars>>
    /\ BatchFrame

\* The try block raises: mark_state(f, "fail", str(e)); fail += 1.
FileFails ==
    /\ Looping
    /\ ~should_skip(files[next_file])
    /\ ~media[files[next_file]].transcribes
    /\ ~MarkStateRaises(files[next_file])
    /\ state' = mark_state(files[next_file], "fail")
    /\ fail' = fail + 1
    /\ next_file' = next_file + 1
    /\ UNCHANGED <<phase, ok, mergeVars, whisperVars, runsVars, watchVars, guiVars>>
    /\ BatchFrame

\* mark_state raises, in the try block (and then again in the handler) or in
\* the handler: the exception leaves process_batch.
MarkStateFails ==
    /\ Looping
    /\ ~should_skip(files[next_file])
    /\ MarkStateRaises(files[next_file])
    /\ phase' = "raised"
    /\ UNCHANGED <<state, ok, fail, next_file, mergeVars, whisperVars, runsVars, watchVars, guiVars>>
    /\ BatchFrame

\* return ok, fail
ReturnCounts ==
    /\ phase = "loop"
    /\ next_file > Len(files)
    /\ phase' = "returned"
    /\ UNCHANGED <<state, ok, fail, next_file, mergeVars, whisperVars, runsVars, watchVars, guiVars>>
    /\ BatchFrame

NextBatch == SkipFile \/ FileOk \/ FileFails \/ MarkStateFails \/ ReturnCounts

SpecBatch == InitBatch /\ [][NextBatch]_vars

\* The file was skipped, or is yet to be skipped: its item is from before
\* this run and tells should_skip to skip it.
Skipped(p) == should_skip(p) /\ state[p][1].updated_at = "before"

\* The file has an item of this run with status "ok" or "fail".
Recorded(p) ==
    /\ state[p] # None
    /\ state[p][1].updated_at = "now"
    /\ state[p][1].status \in {"ok", "fail"}

BatchOver == phase \in {"returned", "raised"}

\* The "ok" items of the files other than the current one.
OkItemsKept ==
    \A i \in 1..Len(files) :
        (i # next_file /\ state[files[i]] # None /\ state[files[i]][1].status = "ok")
            => state'[files[i]] = state[files[i]]

\* C18: a failure on one file is recorded as "fail" for that file only and
\* the batch goes on: after the batch every file was skipped or has one item
\* with status "ok" or "fail", ok + fail is the number of files not skipped,
\* and no pass of the loop alters the "ok" item of another file.
C18_FailureIsolated ==
    /\ [](BatchOver =>
            /\ \A i \in 1..Len(files) : Skipped(files[i]) \/ Recorded(files[i])
            /\ ok + fail = Cardinality({i \in 1..Len(files) : ~Skipped(files[i])}))
    /\ [][OkItemsKept]_vars

(***************************************************************************)
(* One call of polish_segments on one segment long enough to be split.     *)
(***************************************************************************)
InitSplit ==
    /\ phase = "input"
    /\ segments \in [1..1 -> LongSegments]
    /\ cfg \in PolishConfigs
    /\ polished = <<>>
    /\ NoWrapCall
    /\ NoKaraokeCall
    /\ NoMarkupCall
    /\ NoSrtCall
    /\ NoPresetCall
    /\ NoTestCall
    /\ NoCalcCall
    /\ NoBatchCall
    /\ NoMergeCall
    /\ NoWhisperCall
    /\ NoRunsCall
    /\ NoWatchCall
    /\ NoGuiCall

NextSplit == CallPolishSegments

SpecSplit == InitSplit /\ [][NextSplit]_vars

\* The one tuple of the call after the merge pass.
TheTuple == Merge(Items(segments), cfg.merge_gap_ms)[1]

\* The call splits its segment: dur > max_dur_ms and len(words) >= 4.
SplitDone ==
    /\ phase = "polish_segments"
    /\ Len(Merge(Items(segments), cfg.merge_gap_ms)) = 1
    /\ MinDurationDur(TheTuple[1], TheTuple[2], cfg) > cfg.max_dur_ms
    /\ Len(Split(TheTuple[3])) >= 4

\* The chunks the split appends to adjusted (line 551), before the line wrap.
Chunks == Adjusted(segments, cfg)

\* C19: every chunk of a split segment, the final one included, lasts at
\* least min_dur_ms and at most max_dur_ms.
C19_ChunkDurationsClamped ==
    SplitDone =>
        \A j \in 1..Len(polished) :
            /\ EndMs(polished[j]) - StartMs(polished[j]) >= cfg.min_dur_ms
            /\ EndMs(polished[j]) - StartMs(polished[j]) <= cfg.max_dur_ms

MaxCapTick == 3

CapSegments ==
    {SrtSegment(0, ms_to_srt_time(st), ms_to_srt_time(en), txt) :
        st \in Ticks(MaxCapTick), en \in Ticks(MaxCapTick),
        txt \in {<<"a", "b">>, <<"a", "b", "c", " ", "d", "e">>}}

CapConfigs ==
    [max_chars_per_line : {42}, max_lines : {2}, max_cps : {10, 40},
     min_dur_ms : {100}, max_dur_ms : {200, 600}, merge_gap_ms : {0, 100}]

InitCap ==
    /\ phase = "input"
    /\ segments \in SeqsUpTo(CapSegments, 2)
    /\ cfg \in CapConfigs
    /\ polished = <<>>
    /\ NoWrapCall
    /\ NoKaraokeCall
    /\ NoMarkupCall
    /\ NoSrtCall
    /\ NoPresetCall
    /\ NoTestCall
    /\ NoCalcCall
    /\ NoBatchCall
    /\ NoMergeCall
    /\ NoWhisperCall
    /\ NoRunsCall
    /\ NoWatchCall
    /\ NoGuiCall

NextCap == CallPolishSegments

SpecCap == InitCap /\ [][NextCap]_vars

\* The tuples of the call after the merge pass.
Merged == Merge(Items(segments), cfg.merge_gap_ms)

\* Start, end before the reading-speed step and duration of merged tuple i.
TupleStart(i) == Merged[i][1]
EndBefore(i) == MinDurationEnd(Merged[i][1], Merged[i][2], cfg)
DurBefore(i) == MinDurationDur(Merged[i][1], Merged[i][2], cfg)

\* cps > max_cps for merged tuple i: chars / (dur / 1000) > max_cps.
TooFast(i) == Len(Merged[i][3]) * 1000 > cfg.max_cps * DurBefore(i)

\* target of merged tuple i: int(chars / max_cps * 1000) within
\* [min_dur_ms, max_dur_ms].
Target(i) ==
    Max(cfg.min_dur_ms, Min((Len(Merged[i][3]) * 1000) \div cfg.max_cps, cfg.max_dur_ms))

\* The call is over and every merged tuple gave one returned segment.
CapDone == phase = "polish_segments" /\ Len(polished) = Len(Merged)

\* C21 as stated: the reading-speed step only shrinks: for a tuple with
\* cps > max_cps the new end is start + target, never later than the end
\* before the step and never later than the start of the following tuple
\* minus 1.
C21_CapOnlyShrinks ==
    CapDone =>
        \A i \in 1..Len(Merged) :
            TooFast(i) =>
                /\ EndMs(polished[i]) <= EndBefore(i)
                /\ i < Len(Merged) => EndMs(polished[i]) <= Merged[i + 1][1] - 1

\* C21 amended: for a tuple with cps > max_cps the new end is start + target
\* when no tuple follows and min(start + target, max(start + 1, start of the
\* following tuple - 1)) when one follows; it may be later than the end
\* before the step, and it is earlier only where max_dur_ms or the following
\* tuple limits it.
C21_CapWithinTargetAndNext ==
    CapDone =>
        \A i \in 1..Len(Merged) :
            TooFast(i) =>
                /\ EndMs(polished[i]) <= TupleStart(i) + Target(i)
                /\ i = Len(Merged) => EndMs(polished[i]) = TupleStart(i) + Target(i)
                /\ i < Len(Merged) =>
                       EndMs(polished[i]) =
                           Min(TupleStart(i) + Target(i),
                               Max(TupleStart(i) + 1, StartMs(polished[i + 1]) - 1))
                /\ EndMs(polished[i]) < EndBefore(i) =>
                       \/ Target(i) = cfg.max_dur_ms
                       \/ i < Len(Merged) /\ EndMs(polished[i]) < TupleStart(i) + Target(i)

\* A tuple read too fast whose end is moved later, and one whose end the
\* following tuple limits.
C21_Witness ==
    /\ CapDone
    /\ Len(Merged) = 2
    /\ TooFast(1)
    /\ EndMs(polished[1]) > EndBefore(1)
    /\ EndMs(polished[1]) = StartMs(polished[2]) - 1
    /\ EndMs(polished[1]) < TupleStart(1) + Target(1)

(***************************************************************************)
(* One call of polish_segments, seen after its merge pass (line 521) and   *)
(* at its return.  Times are multiples of 100 ms; a segment may end before *)
(* its start.                                                              *)
(***************************************************************************)
MaxMergeSegs == 3

MergeSegments ==
    {SrtSegment(0, ms_to_srt_time(st), ms_to_srt_time(Max(0, st + d)), txt) :
        st \in {0, 100, 200}, d \in {-100, 100},
        txt \in {<<"a">>, <<" ", "b", " ", " ", "c">>}}

MergeConfigs ==
    [max_chars_per_line : {42}, max_lines : {2}, max_cps : {40},
     min_dur_ms : {100}, max_dur_ms : {600}, merge_gap_ms : {0, 100, 200}]

InitMerge ==
    /\ phase = "input"
    /\ segments \in SeqsUpTo(MergeSegments, MaxMergeSegs)
    /\ cfg \in MergeConfigs
    /\ polished = <<>>
    /\ merged_tuples = <<>>
    /\ NoWrapCall
    /\ NoKaraokeCall
    /\ NoMarkupCall
    /\ NoSrtCall
    /\ NoPresetCall
    /\ NoTestCall
    /\ NoCalcCall
    /\ NoBatchCall
    /\ NoWhisperCall
    /\ NoRunsCall
    /\ NoWatchCall
    /\ NoGuiCall

\* Lines 500-521: the items and the merge pass.
MergePass ==
    /\ phase = "input"
    /\ phase' = "merged"
    /\ merged_tuples' = Merge(Items(segments), cfg.merge_gap_ms)
    /\ UNCHANGED <<segments, cfg, polished, wrapVars, karaokeVars, markupVars, srtVars,
                   presetVars, testVars, calcVars, batchVars, whisperVars, runsVars, watchVars, guiVars>>

\* Lines 523-572: the durations, the line wrap and the return.
AdjustAndWrap ==
    /\ phase = "merged"
    /\ phase' = "polish_segments"
    /\ polished' = polish_segments(segments, cfg)
    /\ UNCHANGED <<segments, cfg, merged_tuples, wrapVars, karaokeVars, markupVars,
                   srtVars, presetVars, testVars, calcVars, batchVars, whisperVars, runsVars, watchVars, guiVars>>

NextMerge == MergePass \/ AdjustAndWrap

SpecMerge == InitMerge /\ [][NextMerge]_vars

\* The gap is one the merge pass closes.
InMergeGap(gap) == 0 <= gap /\ gap <= cfg.merge_gap_ms

\* The items that open a merged tuple: the first one, and each one whose
\* start is not within the gap after the end of the item before it.
Openers(items) ==
    {i \in 1..Len(items) : i = 1 \/ ~InMergeGap(items[i][1] - items[i - 1][2])}

\* The k-th opener, and the last member of the merged tuple it opens.
Opener(openers, k) == CHOOSE i \in openers : Cardinality({j \in openers : j <= i}) = k
LastMember(items, openers, k) ==
    IF k = Cardinality(openers) THEN Len(items) ELSE Opener(openers, k + 1) - 1

\* The texts of the items from..upto, joined by single spaces.
MemberTexts(items, from, upto) ==
    Join([j \in 1..(upto - from + 1) |-> items[from + j - 1][3]], <<" ">>)

\* C22: after the merge pass no two consecutive merged tuples have a gap in
\* [0, merge_gap_ms], each merged tuple spans from the start of its first
\* member to the end of its last member, and its text is its members' texts
\* joined by single spaces in input order.
C22_MergedTuples ==
    phase \in {"merged", "polish_segments"} =>
        LET items == Items(segments)
            openers == Openers(items)
        IN  /\ Len(merged_tuples) = Cardinality(openers)
            /\ \A k \in 1..(Len(merged_tuples) - 1) :
                   ~InMergeGap(merged_tuples[k + 1][1] - merged_tuples[k][2])
            /\ \A k \in 1..Len(merged_tuples) :
                   LET from == Opener(openers, k)
                       upto == LastMember(items, openers, k)
                   IN  /\ merged_tuples[k][1] = items[from][1]
                       /\ merged_tuples[k][2] = items[upto][2]
                       /\ merged_tuples[k][3] = MemberTexts(items, from, upto)

\* Three segments merged into one tuple.
C22_Witness ==
    /\ phase = "merged"
    /\ Len(Items(segments)) = 3
    /\ Len(merged_tuples) = 1
    /\ merged_tuples[1][2] > Items(segments)[1][2]

(***************************************************************************)
(* One call of whisper_cli_attempts.  A command is its flag style and the  *)
(* prompt it carries; the child process is free to exit with any code and  *)
(* any output.                                                             *)
(***************************************************************************)
\* if prompt: of an Optional[str]
Truthy(p) == p # None /\ p[1] # <<>>

Command(flags, p) == [flags |-> flags, prompt |-> IF Truthy(p) THEN p ELSE None]

\* The mutant of CliAttempts: the long flags are tried first.
CliAttemptsLongFirst(p) ==
    <<Command("long", p), Command("short", p), Command("positional", p)>>

\* The list attempts: the commands a, b and c.
CliAttempts(p) ==
    <<Command("short", p), Command("long", p), Command("positional", p)>>

RuntimeError(out) == [raised |-> "RuntimeError", last |-> out]

Prompts == {None, Some(<<>>), Some(<<"p">>)}
ReturnCodes == {0, 1}
Outputs == {<<"x">>, <<"y">>}

InitWhisper ==
    /\ phase = "attempts"
    /\ prompt \in Prompts
    /\ attempts = CliAttempts(prompt)
    /\ attempt_no = 1
    /\ last = <<>>
    /\ invocations = <<>>
    /\ cli_result = None
    /\ NoWrapCall
    /\ NoPolishCall
    /\ NoKaraokeCall
    /\ NoMarkupCall
    /\ NoSrtCall
    /\ NoPresetCall
    /\ NoTestCall
    /\ NoCalcCall
    /\ NoBatchCall
    /\ NoMergeCall
    /\ NoRunsCall
    /\ NoWatchCall
    /\ NoGuiCall

OtherThanWhisper ==
    <<wrapVars, polishVars, karaokeVars, markupVars, srtVars, presetVars, testVars,
      calcVars, batchVars, mergeVars, runsVars, watchVars, guiVars>>

\* cp = run_cmd(cmd); last = cp.stdout; the return code is 0: return last.
CmdSucceeds ==
    /\ phase = "attempts"
    /\ attempt_no <= Len(attempts)
    /\ \E out \in Outputs :
        /\ invocations' = Append(invocations,
               [cmd |-> attempts[attempt_no], returncode |-> 0, stdout |-> out])
        /\ last' = out
        /\ cli_result' = Some(out)
    /\ phase' = "returned"
    /\ UNCHANGED <<prompt, attempts, attempt_no, OtherThanWhisper, runsVars, watchVars, guiVars>>

\* cp = run_cmd(cmd); last = cp.stdout; the return code is not 0: next command.
CmdFails ==
    /\ phase = "attempts"
    /\ attempt_no <= Len(attempts)
    /\ \E out \in Outputs, rc \in ReturnCodes \ {0} :
        /\ invocations' = Append(invocations,
               [cmd |-> attempts[attempt_no], returncode |-> rc, stdout |-> out])
        /\ last' = out
    /\ attempt_no' = attempt_no + 1
    /\ UNCHANGED <<phase, prompt, attempts, cli_result, OtherThanWhisper, runsVars, watchVars, guiVars>>

\* The loop is over and prompt is truthy: the call with prompt=None.
RetryWithoutPrompt ==
    /\ phase = "attempts"
    /\ attempt_no > Len(attempts)
    /\ Truthy(prompt)
    /\ prompt' = None
    /\ attempts' = CliAttempts(None)
    /\ attempt_no' = 1
    /\ last' = <<>>
    /\ UNCHANGED <<phase, invocations, cli_result, OtherThanWhisper, runsVars, watchVars, guiVars>>

\* The loop is over and there is no prompt: raise RuntimeError.
RaiseRuntimeError ==
    /\ phase = "attempts"
    /\ attempt_no > Len(attempts)
    /\ ~Truthy(prompt)
    /\ phase' = "raised"
    /\ cli_result' = RuntimeError(last)
    /\ UNCHANGED <<prompt, attempts, attempt_no, last, invocations, OtherThanWhisper, runsVars, watchVars, guiVars>>

NextWhisper == CmdSucceeds \/ CmdFails \/ RetryWithoutPrompt \/ RaiseRuntimeError

\* The function is sequential code and every child process exits.
SpecWhisper == InitWhisper /\ [][NextWhisper]_vars /\ WF_vars(NextWhisper)

\* The flag styles in the order the claim gives.
FlagOrder == <<"short", "long", "positional">>

\* The prompt of the first command: the prompt given, when it is not empty.
PromptGiven == invocations # <<>> /\ invocations[1].cmd.prompt # None

\* Every command run so far but the last one failed.
AllButLastFailed ==
    \A k \in 1..Len(invocations) - 1 : invocations[k].returncode # 0

\* The invocations follow the schedule: the three variants in order, with the
\* prompt in the first round and, only after three failures with a prompt,
\* once more without it.
OnSchedule ==
    /\ Len(invocations) <= 6
    /\ AllButLastFailed
    /\ \A k \in 1..Len(invocations) :
           /\ invocations[k].cmd.flags = FlagOrder[((k - 1) % 3) + 1]
           /\ k > 3 => invocations[k].cmd.prompt = None
           /\ k <= 3 => invocations[k].cmd.prompt = invocations[1].cmd.prompt
    /\ Len(invocations) > 3 => PromptGiven

\* C27: whisper_cli_attempts runs the three variants in fixed order, stops at
\* the first that exits with code 0 and returns its output, retries the three
\* once without the prompt only if all three failed and a prompt was given,
\* never runs more than 6 commands, raises when every attempt failed, and
\* always ends.
C27_AttemptsTerminate ==
    /\ [](/\ OnSchedule
          /\ phase = "returned" =>
                 /\ invocations[Len(invocations)].returncode = 0
                 /\ cli_result = Some(invocations[Len(invocations)].stdout)
          /\ phase = "raised" =>
                 /\ cli_result = RuntimeError(last)
                 /\ invocations[Len(invocations)].returncode # 0
                 /\ Len(invocations) = IF PromptGiven THEN 6 ELSE 3)
    /\ <>(phase \in {"returned", "raised"})

\* The fifth command, the long-flag variant without the prompt, succeeded
\* after four failures.
C27_Witness ==
    /\ phase = "returned"
    /\ Len(invocations) = 5
    /\ invocations[1].cmd.prompt = Some(<<"p">>)
    /\ invocations[5].cmd = Command("long", None)
    /\ cli_result = Some(<<"y">>)

(***************************************************************************)
(* main run after run on one media file: should_skip and mark_state with   *)
(* the size and mtime of the file, the options fingerprint and the         *)
(* required outputs.  Between two runs the file can be modified and an     *)
(* output deleted.                                                         *)
(***************************************************************************)
MaxMtime == 2

Sizes == {10, 20}
Fingerprints == {"fpA", "fpB"}

\* file_sig(p)
file_sig == [size |-> disk.size, mtime |-> disk.mtime]

\* should_skip with the status left out of the test.
ShouldSkipAnyStatus ==
    IF options.force THEN FALSE
    ELSE IF entry = None THEN FALSE
    ELSE IF entry[1].opt_fp # options.opt_fp THEN FALSE
    ELSE IF entry[1].size # file_sig.size \/ entry[1].mtime # file_sig.mtime THEN FALSE
    ELSE disk.outputs

\* should_skip(p), lines 1897-1909, with outputs_exist(p.stem) read from disk.
ShouldSkip ==
    IF options.force THEN FALSE
    ELSE IF entry = None THEN FALSE
    ELSE IF entry[1].opt_fp # options.opt_fp THEN FALSE
    ELSE IF entry[1].size # file_sig.size \/ entry[1].mtime # file_sig.mtime THEN FALSE
    ELSE entry[1].status = "ok" /\ disk.outputs

\* state["items"][key] = {...} of mark_state, lines 1911-1925.
MarkState(status) ==
    Some([status |-> status, size |-> file_sig.size, mtime |-> file_sig.mtime,
          opt_fp |-> options.opt_fp])

OtherThanRuns ==
    <<wrapVars, polishVars, karaokeVars, markupVars, srtVars, presetVars, testVars,
      calcVars, batchVars, mergeVars, whisperVars, watchVars, guiVars>>

InitRuns ==
    /\ phase = "idle"
    /\ options = [force |-> FALSE, opt_fp |-> "fpA"]
    /\ disk = [size |-> 10, mtime |-> 0, outputs |-> FALSE]
    /\ entry = None
    /\ NoWrapCall
    /\ NoPolishCall
    /\ NoKaraokeCall
    /\ NoMarkupCall
    /\ NoSrtCall
    /\ NoPresetCall
    /\ NoTestCall
    /\ NoCalcCall
    /\ NoBatchCall
    /\ NoMergeCall
    /\ NoWhisperCall
    /\ NoWatchCall
    /\ NoGuiCall

\* main starts with some options and reaches the file in process_batch.
StartRun ==
    /\ phase # "batch"
    /\ phase' = "batch"
    /\ options' \in [force : BOOLEAN, opt_fp : Fingerprints]
    /\ UNCHANGED <<disk, entry, OtherThanRuns, watchVars, guiVars>>

\* if should_skip(f): continue
SkipCached ==
    /\ phase = "batch"
    /\ ShouldSkip
    /\ phase' = "skipped"
    /\ UNCHANGED <<options, disk, entry, OtherThanRuns, watchVars, guiVars>>

\* The try block runs to its end: the outputs are written, mark_state(f, "ok").
ProcessOk ==
    /\ phase = "batch"
    /\ ~ShouldSkip
    /\ phase' = "processed"
    /\ disk' = [disk EXCEPT !.outputs = TRUE]
    /\ entry' = MarkState("ok")
    /\ UNCHANGED <<options, OtherThanRuns, watchVars, guiVars>>

\* The try block raises: mark_state(f, "fail"); any part of the outputs may
\* have been written.
ProcessFails ==
    /\ phase = "batch"
    /\ ~ShouldSkip
    /\ phase' = "failed"
    /\ \E written \in BOOLEAN : disk' = [disk EXCEPT !.outputs = written]
    /\ entry' = MarkState("fail")
    /\ UNCHANGED <<options, OtherThanRuns, watchVars, guiVars>>

\* Between runs the media file is written again.
ModifyFile ==
    /\ phase # "batch"
    /\ disk.mtime < MaxMtime
    /\ phase' = "idle"
    /\ \E size \in Sizes : disk' = [disk EXCEPT !.size = size, !.mtime = disk.mtime + 1]
    /\ UNCHANGED <<options, entry, OtherThanRuns, watchVars, guiVars>>

\* Between runs one of the required outputs is deleted.
DeleteOutput ==
    /\ phase # "batch"
    /\ disk.outputs
    /\ phase' = "idle"
    /\ disk' = [disk EXCEPT !.outputs = FALSE]
    /\ UNCHANGED <<options, entry, OtherThanRuns, watchVars, guiVars>>

NextRuns == StartRun \/ SkipCached \/ ProcessOk \/ ProcessFails \/ ModifyFile \/ DeleteOutput

SpecRuns == InitRuns /\ [][NextRuns]_vars

\* The conditions of the claim: --force is off, the entry has status "ok",
\* the same fingerprint, the same size and mtime, and the outputs exist.
Cached ==
    /\ ~options.force
    /\ entry # None
    /\ entry[1].status = "ok"
    /\ entry[1].opt_fp = options.opt_fp
    /\ entry[1].size = disk.size
    /\ entry[1].mtime = disk.mtime
    /\ disk.outputs

\* C28: a run skips the file only if --force is off and the entry has status
\* "ok", the same options fingerprint, the same size and mtime and all
\* outputs exist: a file recorded "fail" is never skipped; and a file
\* recorded "ok" is not processed again while all of these hold.
C28_SkippedIffCached ==
    [][phase = "batch" =>
           /\ phase' = "skipped" <=> Cached
           /\ (entry # None /\ entry[1].status = "fail") => phase' # "skipped"
           /\ phase' \in {"processed", "failed"} => ~Cached]_vars

\* The file was modified after its first "ok", processed again, and is
\* skipped by the run after that.
C28_Witness ==
    /\ phase = "skipped"
    /\ entry = Some([status |-> "ok", size |-> 20, mtime |-> 1, opt_fp |-> "fpB"])
    /\ disk = [size |-> 20, mtime |-> 1, outputs |-> TRUE]

(***************************************************************************)
(* main in watch mode.  One action is one pass of the while loop: the poll *)
(* of the folder, process_batch on the list new, and the sleep.  Files     *)
(* appear and are written again between polls; a file can vanish while a   *)
(* pass is running, which raises out of the loop, since the loop catches   *)
(* KeyboardInterrupt only.                                                 *)
(***************************************************************************)
MaxWatchMtime == 2

\* The media files, in the order collect_files sorts them.
WatchFiles == <<"a.mp4", "b.mp4">>
WatchNames == {WatchFiles[i] : i \in 1..Len(WatchFiles)}

\* collect_files(input_path): the files of the folder.
Collected == {f \in WatchNames : folder[f] # None}

\* The dict seen after the for loop has visited the files of the set visited.
SeenAfter(visited) ==
    [f \in WatchNames |->
        IF f \in visited /\ (seen[f] = None \/ seen[f][1] < folder[f][1])
        THEN Some(folder[f][1]) ELSE seen[f]]

\* The list new of a poll: the files seen before, whose mtime is not newer
\* than the one recorded, and which should_skip does not skip.
NewList ==
    {f \in Collected : seen[f] # None /\ ~(seen[f][1] < folder[f][1]) /\ ~cached[f]}

OtherThanWatch ==
    <<wrapVars, polishVars, karaokeVars, markupVars, srtVars, presetVars, testVars,
      calcVars, batchVars, mergeVars, whisperVars, runsVars, guiVars>>

InitWatch ==
    /\ phase = "watch"
    /\ folder \in [WatchNames -> {None, Some(0)}]
    /\ seen = [f \in WatchNames |-> None]
    /\ cached \in [WatchNames -> BOOLEAN]
    /\ new = {}
    /\ submitted = {}
    /\ NoWrapCall
    /\ NoPolishCall
    /\ NoKaraokeCall
    /\ NoMarkupCall
    /\ NoSrtCall
    /\ NoPresetCall
    /\ NoTestCall
    /\ NoCalcCall
    /\ NoBatchCall
    /\ NoMergeCall
    /\ NoWhisperCall
    /\ NoRunsCall
    /\ NoGuiCall

\* A pass of the loop that reaches the sleep: process_batch(new) returns, and
\* the files it marked "ok" are skipped from now on.
PollReturns ==
    /\ phase = "watch"
    /\ seen' = SeenAfter(Collected)
    /\ new' = NewList
    /\ submitted' = submitted \cup NewList
    /\ \E done \in SUBSET NewList : cached' = [f \in WatchNames |-> cached[f] \/ f \in done]
    /\ UNCHANGED <<phase, folder, OtherThanWatch, guiVars>>

\* A pass in which a file of new vanishes while it is processed: its
\* transcription fails and mark_state raises in the except block.
BatchRaises ==
    /\ phase = "watch"
    /\ \E gone \in NewList : folder' = [folder EXCEPT ![gone] = None]
    /\ seen' = SeenAfter(Collected)
    /\ new' = NewList
    /\ submitted' = submitted \cup NewList
    /\ phase' = "crashed"
    /\ UNCHANGED <<cached, OtherThanWatch, guiVars>>

\* A pass in which a file vanishes after collect_files listed it: f.stat()
\* raises, after the files sorted before it were visited.
StatRaises ==
    /\ phase = "watch"
    /\ \E i \in 1..Len(WatchFiles) :
        /\ WatchFiles[i] \in Collected
        /\ folder' = [folder EXCEPT ![WatchFiles[i]] = None]
        /\ seen' = SeenAfter({WatchFiles[j] : j \in 1..i - 1} \cap Collected)
    /\ phase' = "crashed"
    /\ UNCHANGED <<cached, new, submitted, OtherThanWatch, guiVars>>

\* except KeyboardInterrupt: return 0
KeyboardInterrupt ==
    /\ phase = "watch"
    /\ phase' = "off"
    /\ UNCHANGED <<watchVars, OtherThanWatch, guiVars>>

\* During the sleep a file is put into the folder.
FileAppears ==
    /\ phase = "watch"
    /\ \E f \in WatchNames :
        /\ folder[f] = None
        /\ folder' = [folder EXCEPT ![f] = Some(0)]
    /\ UNCHANGED <<phase, seen, cached, new, submitted, OtherThanWatch, guiVars>>

\* During the sleep a file is written again: it is no longer skipped.
FileWritten ==
    /\ phase = "watch"
    /\ \E f \in Collected :
        /\ folder[f][1] < MaxWatchMtime
        /\ folder' = [folder EXCEPT ![f] = Some(folder[f][1] + 1)]
        /\ cached' = [cached EXCEPT ![f] = FALSE]
    /\ UNCHANGED <<phase, seen, new, submitted, OtherThanWatch, guiVars>>

Poll == PollReturns \/ BatchRaises \/ StatRaises

NextWatch == Poll \/ KeyboardInterrupt \/ FileAppears \/ FileWritten

\* The loop polls again after every sleep.
SpecWatch == InitWatch /\ [][NextWatch]_vars /\ WF_vars(Poll)

\* A pass submits a file only if the file was seen in an earlier pass, its
\* mtime is not newer than the one recorded, and should_skip is false.
SubmittedOnlyWhenSettled ==
    \A f \in WatchNames :
        (f \in submitted' /\ f \notin submitted) =>
            /\ seen[f] # None
            /\ folder[f] # None
            /\ folder[f][1] <= seen[f][1]
            /\ ~cached[f]

\* The file stays in the folder, is not skipped, and the watch is not
\* switched off.
StaysUnsubmittable(f) == folder[f] # None /\ ~cached[f] /\ phase # "off"

\* C29: a file is never submitted on the poll in which it is first seen nor
\* on one in which its mtime is newer than the recorded one, only on a later
\* poll where the mtime has not increased and should_skip is false; and every
\* file that stays unchanged and is not skippable is eventually submitted.
C29_WatchSubmitsSettledFiles ==
    /\ [][SubmittedOnlyWhenSettled]_vars
    /\ \A f \in WatchNames : <>[]StaysUnsubmittable(f) => <>(f \in submitted)

\* The safety half of C29, which the loop keeps.
C29_NeverSubmittedEarly == [][SubmittedOnlyWhenSettled]_vars

(***************************************************************************)
(* transcribe_gui.py: App.proc between the Tk main thread and the reader   *)
(* thread.  The callbacks run_clicked, stop_clicked and update_status run  *)
(* one at a time on the main thread; read_output runs on its own thread.   *)
(* Every read of self.proc is a step of its own, so the reader thread can  *)
(* clear the attribute between the test of self.proc and the call made on  *)
(* it.  A callback that finds self.proc empty at its first test does       *)
(* nothing and is no step.                                                 *)
(***************************************************************************)
MaxChildren == 3

OtherThanGui ==
    <<wrapVars, polishVars, karaokeVars, markupVars, srtVars, presetVars, testVars,
      calcVars, batchVars, mergeVars, whisperVars, runsVars, watchVars>>

InitGui ==
    /\ phase = "mainloop"
    /\ proc = None
    /\ running = {}
    /\ started = 0
    /\ main_pc = "idle"
    /\ reader_pc = "done"
    /\ fault = "none"
    /\ NoWrapCall
    /\ NoPolishCall
    /\ NoKaraokeCall
    /\ NoMarkupCall
    /\ NoSrtCall
    /\ NoPresetCall
    /\ NoTestCall
    /\ NoCalcCall
    /\ NoBatchCall
    /\ NoMergeCall
    /\ NoWhisperCall
    /\ NoRunsCall
    /\ NoWatchCall

\* run_clicked: nothing when self.proc is set; otherwise Popen, the handle in
\* self.proc and the reader thread started.
run_clicked ==
    /\ main_pc = "idle"
    /\ started < MaxChildren
    /\ IF proc # None
       THEN UNCHANGED <<proc, running, started, reader_pc>>
       ELSE /\ proc' = Some(started + 1)
            /\ running' = running \cup {started + 1}
            /\ started' = started + 1
            /\ reader_pc' = "reading"
    /\ UNCHANGED <<phase, main_pc, fault, OtherThanGui>>

\* stop_clicked, line 633: "if self.proc" finds a handle.
StopTestsProc ==
    /\ main_pc = "idle"
    /\ proc # None
    /\ main_pc' = "stop_poll"
    /\ UNCHANGED <<phase, proc, running, started, reader_pc, fault, OtherThanGui>>

\* stop_clicked, line 633: self.proc is read again for .poll().
StopPolls ==
    /\ main_pc = "stop_poll"
    /\ IF proc = None
       THEN main_pc' = "idle" /\ fault' = "stop_clicked poll"
       ELSE /\ main_pc' = IF proc[1] \in running THEN "stop_terminate" ELSE "idle"
            /\ UNCHANGED fault
    /\ UNCHANGED <<phase, proc, running, started, reader_pc, OtherThanGui>>

\* stop_clicked, line 634: self.proc is read a third time for .terminate();
\* the child exits later.
StopTerminates ==
    /\ main_pc = "stop_terminate"
    /\ main_pc' = "idle"
    /\ fault' = IF proc = None THEN "stop_clicked terminate" ELSE fault
    /\ UNCHANGED <<phase, proc, running, started, reader_pc, OtherThanGui>>

\* update_status, line 661: "self.proc is not None" holds.
StatusTestsProc ==
    /\ main_pc = "idle"
    /\ proc # None
    /\ main_pc' = "status_poll"
    /\ UNCHANGED <<phase, proc, running, started, reader_pc, fault, OtherThanGui>>

\* update_status, line 661: self.proc is read again for .poll().
StatusPolls ==
    /\ main_pc = "status_poll"
    /\ main_pc' = "idle"
    /\ fault' = IF proc = None THEN "update_status poll" ELSE fault
    /\ UNCHANGED <<phase, proc, running, started, reader_pc, OtherThanGui>>

\* A child process exits.
ChildExits ==
    /\ \E child \in running : running' = running \ {child}
    /\ UNCHANGED <<phase, proc, started, main_pc, reader_pc, fault, OtherThanGui>>

\* read_output, lines 639-642: the output ends and self.proc.wait() returns.
ReaderWaits ==
    /\ reader_pc = "reading"
    /\ proc[1] \notin running
    /\ reader_pc' = "clearing"
    /\ UNCHANGED <<phase, proc, running, started, main_pc, fault, OtherThanGui>>

\* read_output, line 643: self.proc = None
ReaderClears ==
    /\ reader_pc = "clearing"
    /\ proc' = None
    /\ reader_pc' = "done"
    /\ UNCHANGED <<phase, running, started, main_pc, fault, OtherThanGui>>

NextGui ==
    \/ run_clicked
    \/ StopTestsProc
    \/ StopPolls
    \/ StopTerminates
    \/ StatusTestsProc
    \/ StatusPolls
    \/ ChildExits
    \/ ReaderWaits
    \/ ReaderClears

SpecGui == InitGui /\ [][NextGui]_vars

\* At most one child process is running.
AtMostOneChild == Cardinality(running) <= 1

\* C30: under every interleaving of the reader thread with run_clicked,
\* stop_clicked and update_status, at most one child process is running and
\* no callback calls poll() or terminate() on a handle already cleared.
C30_OneChildNoClearedHandle ==
    /\ AtMostOneChild
    /\ fault = "none"

====
